---- MODULE Spec2Model ----
(***************************************************************************)
(* Loom by Light 1.6.3 (loom_by_light.ino, second revision in the file):   *)
(* an Arduino UNO sketch that shows one row of a 24-bit bitmap on an       *)
(* addressable LED strip.  The model follows the sketch from power-on:     *)
(* every action is the code between two blocking polls of the buttons.     *)
(* int is 16 bit on the UNO (AVR); uint32_t arithmetic wraps at 2^32.      *)
(***************************************************************************)
EXTENDS Integers, Sequences, FiniteSets, TLC

\* ------------------------------------------------------------------ bounds
\* effective button presses (ADC samples that set a pressed flag) per run
MaxPresses == 6
\* number of evenly spaced byte values (besides the ones around the
\* threshold) fed to the pixel classifier on its own
ByteLevels == 20
\* widest and tallest bitmap whose headers are read on their own
MaxWidth == 150
MaxHeight == 2
\* largest led count and offset given to the clamp of the offset on its own
MaxClamp == 6
\* tallest bitmap and longest run of row operations (step, save, load,
\* render) applied on their own
MaxRows == 3
MaxOps == 4

\* ------------------------------------------------------- program constants
MAX_LED_COUNT == 144
NUM_BYTES_PER_PIXEL == 3
BRIGHTNESS_INCREMENT == 1

\* ------------------------------------------------------ machine arithmetic
U8(x) == x % 256
U16(x) == x % 65536
\* conversion to the 16-bit int of the AVR target (two's complement)
I16(x) == LET m == x % 65536 IN IF m >= 32768 THEN m - 65536 ELSE m

\* A uint32_t is kept as its two 16-bit halves << high, low >>, so that
\* every value of the type has a representation and the arithmetic wraps
\* at 2^32 as on the target.
\* conversion of an int (or of a small number) to uint32_t
U32(x) == << (x \div 65536) % 65536, x % 65536 >>
\* conversion of a uint32_t to int
ToInt(w) == I16(w[2])
\* the number a uint32_t below 2^31 stands for
Small(w) == w[1] < 32768
Val(w) == w[1] * 65536 + w[2]

Add32(a, b) ==
    << (a[1] + b[1] + ((a[2] + b[2]) \div 65536)) % 65536,
       (a[2] + b[2]) % 65536 >>
Neg32(a) == Add32(<< 65535 - a[1], 65535 - a[2] >>, << 0, 1 >>)
Sub32(a, b) == Add32(a, Neg32(b))
Lt32(a, b) == (a[1] < b[1]) \/ (a[1] = b[1] /\ a[2] < b[2])
Le32(a, b) == ~Lt32(b, a)
\* x * y mod 2^16 and the whole x * y, for 16-bit x and y
MulMod16(x, y) == ((((x \div 256) * y) % 256) * 256 + (x % 256) * y) % 65536
Mul16(x, y) ==
    LET t == (x \div 256) * y
        s == (t % 256) * 256 + (x % 256) * y
    IN << (t \div 256) + (s \div 65536), s % 65536 >>
Mul32(a, b) ==
    LET low == Mul16(a[2], b[2])
    IN << (low[1] + MulMod16(a[1], b[2]) + MulMod16(a[2], b[1])) % 65536,
          low[2] >>

\* --------------------------------------------------------------- SD files
\* A file on the card: its name, its length, the header fields its bytes
\* encode and the pattern of its pixel data.
Stride(w) == 3 * w + ((4 - ((3 * w) % 4)) % 4)

\* 8.3 names, one string per character
Name(base, ext) == << base, "." >> \o ext
BMP == << "B", "M", "P" >>
TXT == << "T", "X", "T" >>

Bmp(n, w, h, bpp, comp, pat) ==
    [name |-> n, size |-> 54 + Stride(w) * h, sig |-> 19778, offset |-> 54,
     width |-> w, height |-> h, planes |-> 1, bpp |-> bpp, comp |-> comp,
     pat |-> pat]

Catalogue ==
    << Bmp(Name("S", BMP), 3, 2, 24, 0, "thirds"),
       Bmp(Name("W", BMP), 6, 2, 24, 0, "edge"),
       Bmp(Name("G", BMP), 3, 2, 8, 0, "thirds"),
       Bmp(Name("R", BMP), 3, 2, 24, 1, "thirds"),
       Bmp(Name("F", BMP), 2, 0, 24, 0, "thirds"),
       [Bmp(Name("N", TXT), 0, 0, 0, 0, "edge") EXCEPT !.size = 20],
       Bmp(Name("B", BMP), 144, 78, 24, 0, "thirds") >>

NoFile == [Bmp(<< >>, 0, 0, 0, 0, "edge") EXCEPT !.size = 0]

\* the root directory of the card: the catalogue, starting at entry `first`
Directory(first) ==
    [k \in 1..Len(Catalogue) |->
        Catalogue[((first + k - 2) % Len(Catalogue)) + 1]]

\* byte k (0 = lowest) of a little-endian field
ByteOf(v, k) == (v \div (256 ^ k)) % 256

\* pixel data: byte q of the pixel array
PixelByte(pat, q) ==
    IF pat = "thirds"
    THEN IF (q \div 3) % 3 = 0 THEN 0 ELSE 255
    ELSE IF (q \div 3) % 2 = 0 THEN 128
         ELSE IF q % 3 = 0 THEN 127 ELSE 128

\* the byte stored at position p of file f (p < f.size)
FileByte(f, p) ==
    IF p \in 0..1 THEN ByteOf(f.sig, p)
    ELSE IF p \in 10..13 THEN ByteOf(f.offset, p - 10)
    ELSE IF p \in 18..21 THEN ByteOf(f.width, p - 18)
    ELSE IF p \in 22..25 THEN ByteOf(f.height, p - 22)
    ELSE IF p \in 26..27 THEN ByteOf(f.planes, p - 26)
    ELSE IF p \in 28..29 THEN ByteOf(f.bpp, p - 28)
    ELSE IF p \in 30..33 THEN ByteOf(f.comp, p - 30)
    ELSE IF p >= f.offset THEN PixelByte(f.pat, p - f.offset)
    ELSE 0

\* File::read(): the next byte, or -1 at the end of the file
ReadByte(f, p) == IF p < f.size THEN FileByte(f, p) ELSE -1

\* ------------------------------------------------------------ inputs
\* persisted settings found in the EEPROM at power-on
EepromImages ==
    { [row |-> -1, brightness |-> 255, offset |-> -1, ledCount |-> -1],
      [row |-> 1, brightness |-> 1, offset |-> 1, ledCount |-> 5] }

\* analogRead(0) of the keypad: right, up, down, left, select, the unused
\* band between select and released, and released
AdcSamples == {0, 100, 300, 500, 700, 900, 1023}

\* contents of never-written memory
JunkBytes == {0, 255}

\* ------------------------------------------------------------------ state
VARIABLES
    pc,            \* where the sketch waits or what it runs next
    msgsLeft,      \* breakable messages still to show before msgNext
    msgNext,       \* pc after the last message
    caller,        \* who called verifyFile: "setup" or "config"
    sdOk,          \* SD.begin() result
    first,         \* first catalogue entry of the card's root directory
    eeprom,        \* persisted row, brightness, offset, ledCount
    btn,           \* _upPressed .. _selectPressed, _hasInputBeenRead
    presses,       \* effective presses so far
    stateInt,
    nav,           \* _currentNavigatedFileCount
    tempFileName,  \* displayFiles: name shown on the first lcd row
    fileToOpen,
    brightness, ledOffset, ledCount, currentRow,
    bmpFile,       \* [open, file, pos]
    fileOk,
    hdr,           \* header fields and row geometry read from the file
    strip,         \* [made, numLEDs, brightness, pixels, shown]
    log,           \* what the row display did since the last handled press
    probe          \* arguments and result of a function applied on its own

vars == << pc, msgsLeft, msgNext, caller, sdOk, first, eeprom, btn, presses,
           stateInt, nav, tempFileName, fileToOpen, brightness, ledOffset,
           ledCount, currentRow, bmpFile, fileOk, hdr, strip, log, probe >>

NoProbe == [fn |-> "none", args |-> << >>, out |-> << >>]

NoButtons ==
    [up |-> FALSE, down |-> FALSE, left |-> FALSE, right |-> FALSE,
     select |-> FALSE, read |-> FALSE]

ZeroHdr ==
    [headerField |-> 0, imageOffset |-> U32(0), imageWidth |-> U32(0),
     imageHeight |-> U32(0), colourPlanes |-> 0, bitsPerPixel |-> 0,
     compression |-> U32(0), bytesPerRow |-> 0, numEmptyBytesPerRow |-> 0,
     loaded |-> FALSE]

NoStrip ==
    [made |-> FALSE, numLEDs |-> 0, brightness |-> 0, pixels |-> {},
     shown |-> {}]

\* power-on: globals are zero-initialised, ledCount = MAX_LED_COUNT
PowerOn ==
    /\ msgsLeft = 0
    /\ msgNext = "none"
    /\ caller = "setup"
    /\ btn = NoButtons
    /\ presses = 0
    /\ stateInt = 0
    /\ nav = 0
    /\ tempFileName = << >>
    /\ fileToOpen = << >>
    /\ brightness = 0
    /\ ledOffset = 0
    /\ ledCount = MAX_LED_COUNT
    /\ currentRow = 0
    /\ bmpFile = [open |-> FALSE, file |-> NoFile, pos |-> 0]
    /\ fileOk = FALSE
    /\ hdr = ZeroHdr
    /\ strip = NoStrip
    /\ log = << >>

Init ==
    /\ pc = "boot"
    /\ PowerOn
    /\ sdOk \in BOOLEAN
    /\ first \in 1..Len(Catalogue)
    /\ eeprom \in EepromImages
    /\ probe = NoProbe

\* ---------------------------------------------------------------- buttons
readButtons(b, adc) ==
    IF adc > 1000
    THEN IF b.read THEN NoButtons ELSE b
    ELSE IF adc < 50 THEN (IF ~b.read THEN [b EXCEPT !.right = TRUE] ELSE b)
    ELSE IF adc < 250 THEN (IF ~b.read THEN [b EXCEPT !.up = TRUE] ELSE b)
    ELSE IF adc < 450 THEN (IF ~b.read THEN [b EXCEPT !.down = TRUE] ELSE b)
    ELSE IF adc < 650 THEN (IF ~b.read THEN [b EXCEPT !.left = TRUE] ELSE b)
    ELSE IF adc < 850 THEN (IF ~b.read THEN [b EXCEPT !.select = TRUE] ELSE b)
    ELSE b

\* the isXPressed functions: the answer and the flags they leave
isUpPressed(b) ==
    IF b.up THEN [ret |-> TRUE, btn |-> [b EXCEPT !.read = TRUE, !.up = FALSE]]
    ELSE [ret |-> FALSE, btn |-> b]

isDownPressed(b) ==
    IF b.down
    THEN [ret |-> TRUE, btn |-> [b EXCEPT !.read = TRUE, !.down = FALSE]]
    ELSE [ret |-> FALSE, btn |-> b]

isLeftPressed(b) ==
    IF b.left
    THEN [ret |-> TRUE, btn |-> [b EXCEPT !.read = TRUE, !.left = FALSE]]
    ELSE [ret |-> FALSE, btn |-> b]

isRightPressed(b) ==
    IF b.right
    THEN [ret |-> TRUE, btn |-> [b EXCEPT !.read = TRUE, !.right = FALSE]]
    ELSE [ret |-> FALSE, btn |-> b]

isSelectPressed(b) ==
    IF b.select
    THEN [ret |-> TRUE, btn |-> [b EXCEPT !.read = TRUE, !.select = FALSE]]
    ELSE [ret |-> FALSE, btn |-> b]

\* select || left || right || up || down, left to right, stopping at the
\* first that answers true
isAnyButtonPressed(b) ==
    IF b.select THEN isSelectPressed(b)
    ELSE IF b.left THEN isLeftPressed(b)
    ELSE IF b.right THEN isRightPressed(b)
    ELSE IF b.up THEN isUpPressed(b)
    ELSE isDownPressed(b)

\* a sample counts as a press when it sets a pressed flag
IsPress(adc) == adc <= 1000 /\ readButtons(btn, adc) # btn

Sampled(adc) ==
    /\ IsPress(adc) => presses < MaxPresses
    /\ presses' = IF IsPress(adc) THEN presses + 1 ELSE presses

\* ------------------------------------------------- strip and file devices
\* The devices a handler drives are threaded through its calls as one
\* record m: the strip object, the position of bmpFile and the log.  The
\* log lists, in order, every seek and read of bmpFile for a pixel and,
\* for showLightsForRow, its call ("render"), each led it stages ("set"),
\* its show() ("show") and its return ("rendered").
Ev(op, a, b) == [op |-> op, a |-> a, b |-> b]
Logged(m, e) == [m EXCEPT !.log = Append(@, e)]

Machine == [strip |-> strip, pos |-> bmpFile.pos, log |-> << >>]
Resume == [strip |-> strip, pos |-> bmpFile.pos, log |-> log]

\* Adafruit_NeoPixel::setPixelColor ignores an index outside the strip
setLedToBool(m, pixelIndex, isTrue) ==
    [m EXCEPT
        !.strip.pixels =
            IF pixelIndex \in 0..(m.strip.numLEDs - 1)
            THEN (IF isTrue THEN @ \cup {pixelIndex} ELSE @ \ {pixelIndex})
            ELSE @]

stripShow(m) == [m EXCEPT !.strip.shown = m.strip.pixels]

\* new Adafruit_NeoPixel(ledCount, ...), begin, setBrightness, show
createStrip(m, count, bright) ==
    [m EXCEPT
        !.strip = [made |-> TRUE, numLEDs |-> U16(count),
                   brightness |-> bright, pixels |-> {}, shown |-> {}]]

\* delete strip; createStrip()
recreateLedStripHandler(m, count, bright) == createStrip(m, count, bright)

\* SdFile::seekSet fails, leaving the position, beyond the end of the file
\* (pos is a uint32_t)
fileSeek(m, f, pos) ==
    IF Le32(pos, U32(f.size))
    THEN [m EXCEPT !.pos = Val(pos), !.log = Append(@, Ev("seek", pos, 1))]
    ELSE [m EXCEPT !.log = Append(@, Ev("seek", pos, 0))]

\* File::read(buf, 3): the bytes left in the file, at most 3; the rest of
\* the buffer keeps what the stack held
fileRead3(m, f, junk) ==
    LET n == IF f.size - m.pos >= NUM_BYTES_PER_PIXEL
             THEN NUM_BYTES_PER_PIXEL ELSE f.size - m.pos
        buf == [k \in 0..(NUM_BYTES_PER_PIXEL - 1) |->
                   IF k < n THEN FileByte(f, m.pos + k) ELSE junk]
    IN [m |-> [m EXCEPT !.pos = m.pos + n,
                        !.log = Append(@, Ev("read", m.pos, n))],
        buf |-> buf]

\* ------------------------------------------------------- bitmap handler
\* variant of isPixelTrue: a total of exactly 384 counts as on
isPixelTrue_inclusive(blue, green, red) ==
    LET totalInt == blue + green + red IN totalInt <= 384

\* the bytes are widened to int before they are added
isPixelTrue(blue, green, red) ==
    LET totalInt == I16(I16(blue) + I16(green) + I16(red)) IN totalInt < 384

\* the seek position computed for a column: uint32_t arithmetic stored in
\* an int, then passed to seek(uint32_t)
pixelRowFileOffset(h, column, offset, row) ==
    ToInt(Add32(Add32(h.imageOffset,
                      U32(I16((column - offset) * NUM_BYTES_PER_PIXEL))),
                Mul32(Sub32(Sub32(h.imageHeight, U32(row)), U32(1)),
                      U32(h.bytesPerRow))))

\* variant of inWindow: the end of the image is not tested
inWindow_open(h, column, offset) == ~(column < offset)

inWindow(h, column, offset) ==
    ~((column < offset)
      \/ Le32(Add32(U32(offset), h.imageWidth), U32(column)))

isLightOnAtColumn(m, column, row, junk) ==
    IF ~inWindow(hdr, column, ledOffset)
    THEN [m |-> m, ret |-> FALSE]
    ELSE LET p == pixelRowFileOffset(hdr, column, ledOffset, row)
             r == fileRead3(fileSeek(m, bmpFile.file, U32(p)),
                            bmpFile.file, junk)
         IN [m |-> r.m, ret |-> isPixelTrue(r.buf[0], r.buf[1], r.buf[2])]

\* The for loops run their body for i = from .. to - 1 in increasing
\* order; a range of more than one index is run as its two halves, one
\* after the other.  Done(m) makes TLC compute the first half before it
\* starts the second, which keeps the depth of its evaluation small.
Done(m) == m.pos >= 0

\* the body of the loop of showLightsForRow
rowBody(m, i, row, junk) ==
    LET r == isLightOnAtColumn(m, i, row, junk)
    IN Logged(setLedToBool(r.m, i, r.ret),
              Ev("set", i, IF r.ret THEN 1 ELSE 0))

RECURSIVE rowLoop(_, _, _, _, _)
rowLoop(m, from, to, row, junk) ==
    IF from >= to THEN m
    ELSE IF to = from + 1 THEN rowBody(m, from, row, junk)
    ELSE LET half == rowLoop(m, from, (from + to) \div 2, row, junk)
         IN IF Done(half)
            THEN rowLoop(half, (from + to) \div 2, to, row, junk)
            ELSE half

\* variant of showLightsForRow: show() before the last led is staged
showLightsForRow_early(m, row, junk) ==
    LET looped == rowLoop(Logged(m, Ev("render", row, 0)), 0, ledCount - 1,
                          row, junk)
        shown == Logged(stripShow(looped), Ev("show", 0, 0))
    IN Logged(rowLoop(shown, ledCount - 1, ledCount, row, junk),
              Ev("rendered", row, 0))

showLightsForRow(m, row, junk) ==
    LET looped == rowLoop(Logged(m, Ev("render", row, 0)), 0, ledCount,
                          row, junk)
    IN Logged(Logged(stripShow(looped), Ev("show", 0, 0)),
              Ev("rendered", row, 0))

RECURSIVE boundsLoop(_, _, _, _, _)
boundsLoop(m, from, to, ledStart, ledEnd) ==
    IF from >= to THEN m
    ELSE IF to = from + 1
    THEN setLedToBool(m, from, (from >= ledStart) /\ (from < ledEnd))
    ELSE LET half == boundsLoop(m, from, (from + to) \div 2, ledStart, ledEnd)
         IN IF Done(half)
            THEN boundsLoop(half, (from + to) \div 2, to, ledStart, ledEnd)
            ELSE half

showLedsInBounds(m, ledStart, ledEnd, count) ==
    stripShow(boundsLoop(m, 0, count, ledStart, ledEnd))

setLedBrightness(m, bright, count) ==
    stripShow(showLedsInBounds([m EXCEPT !.strip.brightness = bright],
                               0, count, count))

\* read16Bit / read32Bit at position p of f: the value and the position
\* after it; File::read() answers -1 at the end of the file
advance(f, p, n) == IF p + n <= f.size THEN p + n
                    ELSE IF p <= f.size THEN f.size ELSE p

read16Bit(f, p) ==
    LET lsb == U16(ReadByte(f, p))
        msb == U16(ReadByte(f, p + 1))
    IN [val |-> U16(msb * 256 + lsb), pos |-> advance(f, p, 2)]

\* variant of read32Bit: the first byte read is taken as the highest
read32Bit_bigEndian(f, p) ==
    LET msb == U32(ReadByte(f, p))
        b3 == U32(ReadByte(f, p + 1))
        b2 == U32(ReadByte(f, p + 2))
        lsb == U32(ReadByte(f, p + 3))
    IN [val |-> Add32(Add32(Add32(Mul32(msb, U32(16777216)),
                                  Mul32(b3, U32(65536))),
                            Mul32(b2, U32(256))),
                      lsb),
        pos |-> advance(f, p, 4)]

read32Bit(f, p) ==
    LET lsb == U32(ReadByte(f, p))
        b2 == U32(ReadByte(f, p + 1))
        b3 == U32(ReadByte(f, p + 2))
        msb == U32(ReadByte(f, p + 3))
    IN [val |-> Add32(Add32(Add32(Mul32(msb, U32(16777216)),
                                  Mul32(b3, U32(65536))),
                            Mul32(b2, U32(256))),
                      lsb),
        pos |-> advance(f, p, 4)]

seekPos(f, p, target) == IF target <= f.size THEN target ELSE p

\* variant of numEmptyBytesPerRow: the padding is not reduced modulo 4
numEmptyBytesPerRow_unreduced(imageWidth) ==
    I16(4 - (Mul32(U32(3), imageWidth)[2] % 4))

\* _numEmptyBytesPerRow and _bytesPerRow: uint32_t arithmetic stored in int
numEmptyBytesPerRow(imageWidth) ==
    I16((4 - (Mul32(U32(3), imageWidth)[2] % 4)) % 4)

bytesPerRow(imageWidth) ==
    ToInt(Add32(Mul32(U32(3), imageWidth),
                U32(numEmptyBytesPerRow(imageWidth))))

\* readFileHeaders with bmpFile open on f at position p
readFileHeaders(f, p) ==
    LET sig == read16Bit(f, seekPos(f, p, 0))
        off == read32Bit(f, seekPos(f, sig.pos, 10))
        w == read32Bit(f, seekPos(f, off.pos, 18))
        h == read32Bit(f, w.pos)
        planes == read16Bit(f, h.pos)
        bpp == read16Bit(f, planes.pos)
        comp == read32Bit(f, bpp.pos)
    IN [hdr |-> [headerField |-> sig.val, imageOffset |-> off.val,
                 imageWidth |-> w.val, imageHeight |-> h.val,
                 colourPlanes |-> planes.val, bitsPerPixel |-> bpp.val,
                 compression |-> comp.val,
                 bytesPerRow |-> bytesPerRow(w.val),
                 numEmptyBytesPerRow |-> numEmptyBytesPerRow(w.val),
                 loaded |-> TRUE],
        pos |-> comp.pos]

\* what readFileHeaders returns: whether bmpFile is open
readFileHeadersReturns(open) == open

\* variant of checkFileHeaders: the compression method is not tested
checkFileHeaders_anyCompression(h) ==
    IF h.bitsPerPixel # 24 THEN FALSE ELSE TRUE

\* variant of checkFileHeaders: a single colour plane is required too
checkFileHeaders_onePlane(h) ==
    IF h.colourPlanes # 1 THEN FALSE
    ELSE IF h.bitsPerPixel # 24 THEN FALSE
    ELSE IF h.compression # U32(0) THEN FALSE
    ELSE TRUE

checkFileHeaders(h) ==
    IF h.bitsPerPixel # 24 THEN FALSE
    ELSE IF h.compression # U32(0) THEN FALSE
    ELSE TRUE

\* variant of verifyFile: the width is not compared with the led count
verifyFile_anyWidth(open, h, count) ==
    IF ~open THEN "unable to open file"
    ELSE IF ~readFileHeadersReturns(open) THEN "Unable to read file headers"
    ELSE IF ~checkFileHeaders(h) THEN "Not compatable file"
    ELSE "file OK"

\* verifyFile once the headers are read: the outcome it reports
verifyFile(open, h, count) ==
    IF ~open THEN "unable to open file"
    ELSE IF ~readFileHeadersReturns(open) THEN "Unable to read file headers"
    ELSE IF ~checkFileHeaders(h) THEN "Not compatable file"
    ELSE IF Lt32(U32(count), h.imageWidth)
    THEN "Image width greater then LED count"
    ELSE "file OK"

\* ---------------------------------------------------------------- rows
incrementRow(row, h) ==
    LET r == I16(row + 1) IN IF Le32(h.imageHeight, U32(r)) THEN 0 ELSE r

\* variant of decrementRow: below row 0 the row becomes 0
decrementRow_stay(row, h) ==
    LET r == I16(row - 1) IN IF r < 0 THEN 0 ELSE r

decrementRow(row, h) ==
    LET r == I16(row - 1)
    IN IF r < 0 THEN ToInt(Sub32(h.imageHeight, U32(1))) ELSE r

\* ------------------------------------------------------------- settings
\* variant of checkLedOffset: the width of the image is left out
checkLedOffset_noWidth(offset, count, h) ==
    IF Lt32(U32(count), U32(offset)) THEN count
    ELSE IF offset < 0 THEN 0 ELSE offset

checkLedOffset(offset, count, h) ==
    IF Lt32(Sub32(U32(count), h.imageWidth), U32(offset))
    THEN ToInt(Sub32(U32(count), h.imageWidth))
    ELSE IF offset < 0 THEN 0 ELSE offset

\* variant of increaseLedOffset: the width of the image is left out of
\* the test
increaseLedOffset_noWidth(offset, count, h) ==
    LET o == I16(offset + 1)
    IN IF Lt32(U32(count), U32(o)) THEN 0 ELSE o

increaseLedOffset(offset, count, h) ==
    LET o == I16(offset + 1)
    IN IF Lt32(Sub32(U32(count), h.imageWidth), U32(o)) THEN 0 ELSE o

\* the new offset and whether it was put to the EEPROM
decreaseLedOffset(offset, count, h) ==
    LET o == I16(offset - 1)
    IN IF o < 0
       THEN [offset |-> ToInt(Sub32(U32(count), h.imageWidth)), put |-> TRUE]
       ELSE [offset |-> o, put |-> FALSE]

RECURSIVE hideLoop(_, _, _)
hideLoop(m, from, to) ==
    IF from >= to THEN m
    ELSE IF to = from + 1 THEN setLedToBool(m, from, FALSE)
    ELSE LET half == hideLoop(m, from, (from + to) \div 2)
         IN IF Done(half) THEN hideLoop(half, (from + to) \div 2, to)
            ELSE half

\* variant of increaseLedCount: beyond MAX_LED_COUNT the count wraps to 0
increaseLedCount_toZero(m, count, offset, h) ==
    LET c == I16(count + 1)
        wrap == c > MAX_LED_COUNT
        c1 == IF wrap THEN 0 ELSE c
    IN [m |-> IF wrap THEN stripShow(hideLoop(m, 2, MAX_LED_COUNT)) ELSE m,
        ledCount |-> c1, ledOffset |-> checkLedOffset(offset, c1, h)]

\* increaseLedCount / decreaseLedCount: the new count, the new offset and
\* the strip operations
increaseLedCount(m, count, offset, h) ==
    LET c == I16(count + 1)
        wrap == c > MAX_LED_COUNT
        c1 == IF wrap THEN 1 ELSE c
    IN [m |-> IF wrap THEN stripShow(hideLoop(m, 2, MAX_LED_COUNT)) ELSE m,
        ledCount |-> c1, ledOffset |-> checkLedOffset(offset, c1, h)]

decreaseLedCount(m, count, offset, h) ==
    LET c == I16(count - 1)
        wrap == c < 1
        c1 == IF wrap THEN MAX_LED_COUNT ELSE c
    IN [m |-> IF wrap THEN m ELSE stripShow(setLedToBool(m, c, FALSE)),
        ledCount |-> c1, ledOffset |-> checkLedOffset(offset, c1, h)]

increaseBrightnessVar(b) ==
    LET b1 == U8(b + BRIGHTNESS_INCREMENT) IN IF b1 > 255 THEN 0 ELSE b1

decreaseBrightnessVar(b) ==
    LET b1 == U8(b - BRIGHTNESS_INCREMENT) IN IF b1 <= 0 THEN 255 ELSE b1

\* --------------------------------------------------------------- EEPROM
readEepromRow(e, h) ==
    IF (e.row < 0) \/ Le32(h.imageHeight, U32(e.row))
    THEN ToInt(Sub32(h.imageHeight, U32(1)))
    ELSE e.row

\* variant of writeEepromRow: the last row of the image is refused too
writeEepromRow_short(e, row, h) ==
    [e EXCEPT !.row = IF (row <= 0)
                         \/ Le32(h.imageHeight, U32(I16(row + 1)))
                      THEN 0 ELSE row]

writeEepromRow(e, row, h) ==
    [e EXCEPT !.row = IF (row <= 0) \/ Le32(h.imageHeight, U32(row))
                      THEN 0 ELSE row]

ledCountInBounds(count) ==
    IF (count < 1) \/ (count > MAX_LED_COUNT) THEN MAX_LED_COUNT ELSE count

\* readEepromLedCount puts the corrected count back
readEepromLedCount(e) == [e EXCEPT !.ledCount = ledCountInBounds(e.ledCount)]

writeEepromLedCount(e, count) ==
    [e EXCEPT !.ledCount = ledCountInBounds(count)]

writeEepromBrightness(e, b) == [e EXCEPT !.brightness = b]

readEepromLedOffset(e, count, h) == checkLedOffset(e.offset, count, h)

\* writeEepromLedOffset also sets the global ledOffset to what it wrote
writeEepromLedOffset(e, offset, count, h) ==
    [e EXCEPT !.offset = checkLedOffset(offset, count, h)]

\* variant of writeAllEepromData: the brightness is not written
writeAllEepromData_noBrightness(e, count, b, offset, h) ==
    writeEepromLedOffset(writeEepromLedCount(e, count), offset, count, h)

writeAllEepromData(e, count, b, offset, h) ==
    writeEepromLedOffset(
        writeEepromBrightness(writeEepromLedCount(e, count), b),
        offset, count, h)

\* ---------------------------------------------------------- file browser
isFileNamevalid(name) ==
    /\ Len(name) >= 4
    /\ SubSeq(name, Len(name) - 3, Len(name)) = << "." >> \o BMP

\* the display loop of displayFiles: the entry after the first n of the
\* directory becomes the name of lcd row 0; with none left the name stays
displayTop(dir, n, old) ==
    IF n + 1 \in DOMAIN dir THEN dir[n + 1].name ELSE old

\* what the display loop of displayFiles puts on lcd row 0 after
\* lcd->clear(): "->" and the name of the entry after the first n, or
\* nothing when the directory has no such entry
lcdTop(dir, n) ==
    IF n + 1 \in DOMAIN dir THEN << "-", ">" >> \o dir[n + 1].name ELSE << >>

\* SD.open(name): the file of that name
fileNamed(dir, name) ==
    IF \E k \in DOMAIN dir : dir[k].name = name
    THEN dir[CHOOSE k \in DOMAIN dir : dir[k].name = name]
    ELSE NoFile

\* ------------------------------------------------------------- actions
Msg(n, next) == pc' = "msg" /\ msgsLeft' = n /\ msgNext' = next
Goto(p) == pc' = p /\ UNCHANGED << msgsLeft, msgNext >>
Devices(m) ==
    /\ strip' = m.strip
    /\ bmpFile' = [bmpFile EXCEPT !.pos = m.pos]
    /\ log' = m.log

card == << sdOk, first, probe >>
browser == << nav, tempFileName, fileToOpen >>
settings == << brightness, ledOffset, ledCount >>
devices == << strip, bmpFile, log >>

\* a poll that finds no button it asks about: only the flags change
Idle(b) ==
    /\ btn' = b
    /\ UNCHANGED << pc, msgsLeft, msgNext, caller, card, eeprom, stateInt,
                    browser, settings, currentRow, fileOk, hdr, devices >>

\* variant of Boot: setup goes on after a failed SD.begin()
Boot_on ==
    /\ pc = "boot"
    /\ LET e == readEepromLedCount(eeprom)
       IN /\ eeprom' = e
          /\ currentRow' = readEepromRow(eeprom, hdr)
          /\ ledCount' = e.ledCount
          /\ brightness' = eeprom.brightness
          /\ ledOffset' = readEepromLedOffset(eeprom, e.ledCount, hdr)
    /\ IF sdOk
       THEN /\ Goto("browse")
            /\ tempFileName' = displayTop(Directory(first), nav, tempFileName)
       ELSE /\ Goto("browse")
            /\ UNCHANGED tempFileName
    /\ UNCHANGED << caller, card, btn, presses, stateInt, nav, fileToOpen,
                    fileOk, hdr, devices >>

\* setup() up to the file browser: readAllEepromData, initializeCard and
\* the first display of displayFiles
Boot ==
    /\ pc = "boot"
    /\ LET e == readEepromLedCount(eeprom)
       IN /\ eeprom' = e
          /\ currentRow' = readEepromRow(eeprom, hdr)
          /\ ledCount' = e.ledCount
          /\ brightness' = eeprom.brightness
          /\ ledOffset' = readEepromLedOffset(eeprom, e.ledCount, hdr)
    /\ IF sdOk
       THEN /\ Goto("browse")
            /\ tempFileName' = displayTop(Directory(first), nav, tempFileName)
       ELSE /\ Goto("halt")
            /\ UNCHANGED tempFileName
    /\ UNCHANGED << caller, card, btn, presses, stateInt, nav, fileToOpen,
                    fileOk, hdr, devices >>

\* one turn of the button loop of displayFiles
BrowsePoll(adc) ==
    /\ pc = "browse"
    /\ Sampled(adc)
    /\ LET b == readButtons(btn, adc)
       IN IF isDownPressed(b).ret
          THEN /\ btn' = isDownPressed(b).btn
               /\ nav' = nav + 1
               /\ tempFileName' =
                      displayTop(Directory(first), nav + 1, tempFileName)
               /\ UNCHANGED << pc, msgsLeft, msgNext, fileToOpen, stateInt >>
          ELSE IF isUpPressed(b).ret
          THEN /\ btn' = isUpPressed(b).btn
               /\ nav' = (IF nav - 1 < 0 THEN 0 ELSE nav - 1)
               /\ tempFileName' =
                      displayTop(Directory(first),
                                 IF nav - 1 < 0 THEN 0 ELSE nav - 1,
                                 tempFileName)
               /\ UNCHANGED << pc, msgsLeft, msgNext, fileToOpen, stateInt >>
          ELSE IF isRightPressed(b).ret
          THEN /\ btn' = isRightPressed(b).btn
               /\ IF isFileNamevalid(tempFileName)
                  THEN /\ fileToOpen' = tempFileName
                       /\ stateInt' = 1
                       /\ Msg(1, "openFile")
                  ELSE UNCHANGED << pc, msgsLeft, msgNext, fileToOpen,
                                    stateInt >>
               /\ UNCHANGED << nav, tempFileName >>
          ELSE /\ btn' = b
               /\ UNCHANGED << pc, msgsLeft, msgNext, browser, stateInt >>
    /\ UNCHANGED << caller, card, eeprom, settings, currentRow, fileOk, hdr,
                    devices >>

\* one turn of resetAndDisplayMessageWithBreakableLoopLcd; expired: the
\* time of the message is over after this turn
MsgPoll(adc, expired) ==
    /\ pc = "msg"
    /\ Sampled(adc)
    /\ LET a == isAnyButtonPressed(readButtons(btn, adc))
       IN /\ btn' = a.btn
          /\ IF a.ret \/ expired
             THEN /\ msgsLeft' = msgsLeft - 1
                  /\ pc' = (IF msgsLeft = 1 THEN msgNext ELSE "msg")
                  /\ UNCHANGED msgNext
             ELSE UNCHANGED << pc, msgsLeft, msgNext >>
    /\ UNCHANGED << caller, card, eeprom, stateInt, browser, settings,
                    currentRow, fileOk, hdr, devices >>

\* openFile(fileName) in setup, up to its message
OpenFile(opens) ==
    /\ pc = "openFile"
    /\ LET f == fileNamed(Directory(first), fileToOpen)
           ok == opens /\ f # NoFile
       IN /\ bmpFile' = [open |-> ok, file |-> IF ok THEN f ELSE NoFile,
                         pos |-> 0]
          /\ fileOk' = (IF ok THEN fileOk ELSE FALSE)
    /\ caller' = "setup"
    /\ Msg(1, "verifyFile")
    /\ UNCHANGED << card, eeprom, btn, presses, stateInt, browser, settings,
                    currentRow, hdr, strip, log >>

\* verifyFile up to the message of its outcome: checkFileHeaders shows a
\* message of its own before "Not compatable file"
VerifyFile ==
    /\ pc = "verifyFile"
    /\ IF bmpFile.open
       THEN LET r == readFileHeaders(bmpFile.file, bmpFile.pos)
            IN /\ hdr' = r.hdr
               /\ bmpFile' = [bmpFile EXCEPT !.pos = r.pos]
               /\ Msg(IF checkFileHeaders(r.hdr) THEN 1 ELSE 2, "verifyEnd")
       ELSE /\ UNCHANGED << hdr, bmpFile >>
            /\ Msg(1, "verifyEnd")
    /\ UNCHANGED << caller, card, eeprom, btn, presses, stateInt, browser,
                    settings, currentRow, fileOk, strip, log >>

\* the end of verifyFile called from setup, then createStrip and the
\* entry of uiIntro
VerifyEndSetup ==
    /\ pc = "verifyEnd"
    /\ caller = "setup"
    /\ fileOk' = (verifyFile(bmpFile.open, hdr, ledCount) = "file OK")
    /\ Devices(createStrip(Resume, ledCount, brightness))
    /\ stateInt' = 0
    /\ Goto("intro")
    /\ UNCHANGED << caller, card, eeprom, btn, presses, browser, settings,
                    currentRow, hdr >>

\* variant of VerifyEndConfig: the configuration loop ends whatever
\* verifyFile answered
VerifyEndConfig_always ==
    /\ pc = "verifyEnd"
    /\ caller = "config"
    /\ fileOk' = (verifyFile(bmpFile.open, hdr, ledCount) = "file OK")
    /\ stateInt' = 1
    /\ Goto("displayRow")
    /\ UNCHANGED << caller, card, eeprom, btn, presses, browser, settings,
                    currentRow, hdr, devices >>

\* the end of verifyFile called from setStateDepartingConfig, then the
\* test that ends the configuration loop of setup
VerifyEndConfig ==
    /\ pc = "verifyEnd"
    /\ caller = "config"
    /\ LET ok == verifyFile(bmpFile.open, hdr, ledCount) = "file OK"
       IN /\ fileOk' = ok
          /\ IF ~ok
             THEN stateInt' = 0 /\ Goto("intro")
             ELSE stateInt' = 1 /\ Goto("displayRow")
    /\ UNCHANGED << caller, card, eeprom, btn, presses, browser, settings,
                    currentRow, hdr, devices >>

\* variant of IntroPoll: the intro leads to the LED-count screen
IntroPoll_toLedCount(adc) ==
    /\ pc = "intro"
    /\ Sampled(adc)
    /\ LET a == isAnyButtonPressed(readButtons(btn, adc))
       IN IF a.ret
          THEN /\ btn' = a.btn
               /\ currentRow' = readEepromRow(eeprom, hdr)
               /\ stateInt' = 12
               /\ Goto("config")
               /\ log' = << >>
               /\ UNCHANGED << caller, card, eeprom, browser, settings,
                               fileOk, hdr, strip, bmpFile >>
          ELSE Idle(a.btn)

\* one turn of the loop of uiIntro
IntroPoll(adc) ==
    /\ pc = "intro"
    /\ Sampled(adc)
    /\ LET a == isAnyButtonPressed(readButtons(btn, adc))
       IN IF a.ret
          THEN /\ btn' = a.btn
               /\ currentRow' = readEepromRow(eeprom, hdr)
               /\ stateInt' = 10
               /\ Goto("config")
               /\ log' = << >>
               /\ UNCHANGED << caller, card, eeprom, browser, settings,
                               fileOk, hdr, strip, bmpFile >>
          ELSE Idle(a.btn)

\* what the configuration screen entered next does to the strip: uiOffset
\* lights the window of the image
configEntry(m, screen, offset, count) ==
    IF screen = 11
    THEN showLedsInBounds(m, offset,
                          ToInt(Add32(U32(offset), hdr.imageWidth)), count)
    ELSE m

\* up / down of a configuration screen: the next screen
ToScreen(b, screen) ==
    /\ btn' = b
    /\ stateInt' = screen
    /\ Goto("config")
    /\ Devices(configEntry(Machine, screen, ledOffset, ledCount))
    /\ UNCHANGED << caller, card, eeprom, browser, settings, currentRow,
                    fileOk, hdr >>

\* setStateDepartingConfig up to verifyFile: writeAllEepromData
Depart(b) ==
    /\ btn' = b
    /\ eeprom' = writeAllEepromData(eeprom, ledCount, brightness, ledOffset,
                                    hdr)
    /\ ledOffset' = checkLedOffset(ledOffset, ledCount, hdr)
    /\ caller' = "config"
    /\ Goto("verifyFile")
    /\ log' = << >>
    /\ UNCHANGED << card, stateInt, browser, brightness, ledCount,
                    currentRow, fileOk, hdr, strip, bmpFile >>

SetBrightness(b, value) ==
    /\ btn' = b
    /\ brightness' = value
    /\ Devices(setLedBrightness(Machine, value, ledCount))
    /\ Goto("config")
    /\ UNCHANGED << caller, card, eeprom, stateInt, browser, ledOffset,
                    ledCount, currentRow, fileOk, hdr >>

\* one turn of the loop of uiBrightness
BrightnessPoll(adc) ==
    /\ pc = "config"
    /\ stateInt = 10
    /\ Sampled(adc)
    /\ LET b == readButtons(btn, adc)
       IN IF isRightPressed(b).ret
          THEN SetBrightness(isRightPressed(b).btn,
                             increaseBrightnessVar(brightness))
          ELSE IF isLeftPressed(b).ret
          THEN SetBrightness(isLeftPressed(b).btn,
                             decreaseBrightnessVar(brightness))
          ELSE IF isUpPressed(b).ret THEN ToScreen(isUpPressed(b).btn, 13)
          ELSE IF isDownPressed(b).ret THEN ToScreen(isDownPressed(b).btn, 11)
          ELSE IF isSelectPressed(b).ret THEN Depart(isSelectPressed(b).btn)
          ELSE Idle(b)

SetOffset(b, value, put) ==
    /\ btn' = b
    /\ ledOffset' = value
    /\ eeprom' = (IF put THEN [eeprom EXCEPT !.offset = value] ELSE eeprom)
    /\ Devices(configEntry(Machine, 11, value, ledCount))
    /\ Goto("config")
    /\ UNCHANGED << caller, card, stateInt, browser, brightness, ledCount,
                    currentRow, fileOk, hdr >>

\* one turn of the loop of uiOffset
OffsetPoll(adc) ==
    /\ pc = "config"
    /\ stateInt = 11
    /\ Sampled(adc)
    /\ LET b == readButtons(btn, adc)
           dec == decreaseLedOffset(ledOffset, ledCount, hdr)
       IN IF isUpPressed(b).ret THEN ToScreen(isUpPressed(b).btn, 10)
          ELSE IF isDownPressed(b).ret THEN ToScreen(isDownPressed(b).btn, 12)
          ELSE IF isLeftPressed(b).ret
          THEN SetOffset(isLeftPressed(b).btn, dec.offset, dec.put)
          ELSE IF isRightPressed(b).ret
          THEN SetOffset(isRightPressed(b).btn,
                         increaseLedOffset(ledOffset, ledCount, hdr), FALSE)
          ELSE IF isSelectPressed(b).ret THEN Depart(isSelectPressed(b).btn)
          ELSE Idle(b)

\* left / right of uiLedCount: the count changes, the strip is deleted and
\* made again, and the leds up to the count are lit
SetLedCount(b, r) ==
    /\ btn' = b
    /\ ledCount' = r.ledCount
    /\ ledOffset' = r.ledOffset
    /\ Devices(showLedsInBounds(
                   recreateLedStripHandler(r.m, r.ledCount, brightness),
                   0, r.ledCount, r.ledCount))
    /\ Goto("config")
    /\ UNCHANGED << caller, card, eeprom, stateInt, browser, brightness,
                    currentRow, fileOk, hdr >>

\* one turn of the loop of uiLedCount
LedCountPoll(adc) ==
    /\ pc = "config"
    /\ stateInt = 12
    /\ Sampled(adc)
    /\ LET b == readButtons(btn, adc)
       IN IF isUpPressed(b).ret THEN ToScreen(isUpPressed(b).btn, 11)
          ELSE IF isDownPressed(b).ret THEN ToScreen(isDownPressed(b).btn, 13)
          ELSE IF isLeftPressed(b).ret
          THEN SetLedCount(isLeftPressed(b).btn,
                           decreaseLedCount(Machine, ledCount, ledOffset, hdr))
          ELSE IF isRightPressed(b).ret
          THEN SetLedCount(isRightPressed(b).btn,
                           increaseLedCount(Machine, ledCount, ledOffset, hdr))
          ELSE IF isSelectPressed(b).ret THEN Depart(isSelectPressed(b).btn)
          ELSE Idle(b)

\* variant of ResetToDefault: the current row is reset too
ResetToDefault_row(b) ==
    /\ btn' = b
    /\ brightness' = 1
    /\ ledCount' = MAX_LED_COUNT
    /\ ledOffset' = 0
    /\ currentRow' = 0
    /\ Devices(showLedsInBounds(Machine, 0, MAX_LED_COUNT, MAX_LED_COUNT))
    /\ Msg(1, "resetEnd")
    /\ UNCHANGED << caller, card, eeprom, stateInt, browser, fileOk, hdr >>

\* right of uiResetToDefault up to its message
ResetToDefault(b) ==
    /\ btn' = b
    /\ brightness' = 1
    /\ ledCount' = MAX_LED_COUNT
    /\ ledOffset' = 0
    /\ Devices(showLedsInBounds(Machine, 0, MAX_LED_COUNT, MAX_LED_COUNT))
    /\ Msg(1, "resetEnd")
    /\ UNCHANGED << caller, card, eeprom, stateInt, browser, currentRow,
                    fileOk, hdr >>

\* variant of ResetPoll: down leads to the offset screen
ResetPoll_downToOffset(adc) ==
    /\ pc = "config"
    /\ stateInt = 13
    /\ Sampled(adc)
    /\ LET b == readButtons(btn, adc)
       IN IF isUpPressed(b).ret THEN ToScreen(isUpPressed(b).btn, 12)
          ELSE IF isDownPressed(b).ret THEN ToScreen(isDownPressed(b).btn, 11)
          ELSE IF isRightPressed(b).ret
          THEN ResetToDefault(isRightPressed(b).btn)
          ELSE IF isSelectPressed(b).ret THEN Depart(isSelectPressed(b).btn)
          ELSE Idle(b)

\* one turn of the loop of uiResetToDefault
ResetPoll(adc) ==
    /\ pc = "config"
    /\ stateInt = 13
    /\ Sampled(adc)
    /\ LET b == readButtons(btn, adc)
       IN IF isUpPressed(b).ret THEN ToScreen(isUpPressed(b).btn, 12)
          ELSE IF isDownPressed(b).ret THEN ToScreen(isDownPressed(b).btn, 10)
          ELSE IF isRightPressed(b).ret
          THEN ResetToDefault(isRightPressed(b).btn)
          ELSE IF isSelectPressed(b).ret THEN Depart(isSelectPressed(b).btn)
          ELSE Idle(b)

\* uiResetToDefault after its message: setLedBrightness
ResetEnd ==
    /\ pc = "resetEnd"
    /\ Devices(setLedBrightness(Resume, brightness, ledCount))
    /\ Goto("config")
    /\ UNCHANGED << caller, card, eeprom, btn, presses, stateInt, browser,
                    settings, currentRow, fileOk, hdr >>

\* loop() enters uiDisplayRow: the row is shown on the strip
DisplayRow(junk) ==
    /\ pc = "displayRow"
    /\ stateInt = 1
    /\ Devices(showLightsForRow(Resume, currentRow, junk))
    /\ Goto("row")
    /\ UNCHANGED << caller, card, eeprom, btn, presses, stateInt, browser,
                    settings, currentRow, fileOk, hdr >>

\* up / down of uiDisplayRow: decrementRow / incrementRow, which end with
\* isLightOnAtColumn(currentRow)
StepRow(b, row, junk) ==
    /\ btn' = b
    /\ currentRow' = row
    /\ Devices(isLightOnAtColumn(Machine, row, row, junk).m)
    /\ Goto("displayRow")
    /\ UNCHANGED << caller, card, eeprom, stateInt, browser, settings,
                    fileOk, hdr >>

\* right of uiDisplayRow: uiSaveRowEeprom up to its message
SaveRow(b) ==
    /\ btn' = b
    /\ eeprom' = writeEepromRow(eeprom, currentRow, hdr)
    /\ stateInt' = 1
    /\ Msg(1, "displayRow")
    /\ log' = << >>
    /\ UNCHANGED << caller, card, browser, settings, currentRow, fileOk, hdr,
                    strip, bmpFile >>

\* left of uiDisplayRow: uiLoadRowEeprom up to its message
LoadRow(b) ==
    /\ btn' = b
    /\ currentRow' = readEepromRow(eeprom, hdr)
    /\ stateInt' = 1
    /\ Msg(1, "displayRow")
    /\ log' = << >>
    /\ UNCHANGED << caller, card, eeprom, browser, settings, fileOk, hdr,
                    strip, bmpFile >>

\* one turn of the loop of uiDisplayRow
RowPoll(adc, junk) ==
    /\ pc = "row"
    /\ Sampled(adc)
    /\ LET b == readButtons(btn, adc)
       IN IF isUpPressed(b).ret
          THEN StepRow(isUpPressed(b).btn, decrementRow(currentRow, hdr), junk)
          ELSE IF isDownPressed(b).ret
          THEN StepRow(isDownPressed(b).btn, incrementRow(currentRow, hdr),
                       junk)
          ELSE IF isRightPressed(b).ret THEN SaveRow(isRightPressed(b).btn)
          ELSE IF isLeftPressed(b).ret THEN LoadRow(isLeftPressed(b).btn)
          ELSE Idle(b)

Next ==
    \/ Boot
    \/ \E adc \in AdcSamples : BrowsePoll(adc)
    \/ \E adc \in AdcSamples, expired \in BOOLEAN : MsgPoll(adc, expired)
    \/ \E opens \in BOOLEAN : OpenFile(opens)
    \/ VerifyFile
    \/ VerifyEndSetup
    \/ VerifyEndConfig
    \/ \E adc \in AdcSamples : IntroPoll(adc)
    \/ \E adc \in AdcSamples : BrightnessPoll(adc)
    \/ \E adc \in AdcSamples : OffsetPoll(adc)
    \/ \E adc \in AdcSamples : LedCountPoll(adc)
    \/ \E adc \in AdcSamples : ResetPoll(adc)
    \/ ResetEnd
    \/ \E junk \in JunkBytes : DisplayRow(junk)
    \/ \E adc \in AdcSamples, junk \in JunkBytes : RowPoll(adc, junk)

Spec == Init /\ [][Next]_vars

\* ------------------------------------------- the pixel classifier alone
\* isPixelTrue applied to three bytes: evenly spaced values and the
\* values around a third of the threshold
Bytes == {(255 * k) \div ByteLevels : k \in 0..ByteLevels} \cup {127, 128, 129}

InitPixel ==
    /\ pc = "isPixelTrue"
    /\ PowerOn
    /\ sdOk = TRUE
    /\ first = 1
    /\ eeprom \in EepromImages
    /\ probe \in [fn : {"isPixelTrue"}, args : Bytes \X Bytes \X Bytes,
                  out : {<< >>}]

ApplyPixel ==
    /\ pc = "isPixelTrue"
    /\ probe' = [probe EXCEPT
                     !.out = << isPixelTrue(probe.args[1], probe.args[2],
                                            probe.args[3]) >>]
    /\ pc' = "returned"
    /\ UNCHANGED << msgsLeft, msgNext, caller, sdOk, first, eeprom, btn,
                    presses, stateInt, browser, settings, currentRow, bmpFile,
                    fileOk, hdr, strip, log >>

NextPixel == ApplyPixel

SpecPixel == InitPixel /\ [][NextPixel]_vars

\* ----------------------------------------------- readFileHeaders alone
\* readFileHeaders applied to a 24-bit bitmap of any width up to MaxWidth,
\* to files that end before the end of the header fields, and with no
\* file open
HeaderFiles ==
    { Bmp(Name("P", BMP), w, h, 24, 0, pat) :
          w \in 0..MaxWidth, h \in 1..MaxHeight, pat \in {"thirds", "edge"} }

TruncatedFiles ==
    { [Bmp(Name("P", BMP), 3, h, 24, 0, "thirds") EXCEPT !.size = n] :
          h \in 1..MaxHeight, n \in {0, 1, 12, 20, 29, 33} }

\* byte values a header field is made of, and the 32-bit field with bytes
\* b0 (lowest) .. b3, kept as a signed number so that every byte pattern
\* has one
ByteSamples == {0, 1, 127, 128, 255}
Field(b0, b1, b2, b3) ==
    b0 + 256 * b1 + 65536 * b2
       + 16777216 * (IF b3 >= 128 THEN b3 - 256 ELSE b3)

\* files of 34 bytes (the header fields and no more) and of 66 bytes in
\* which one header field holds any bytes
FieldFiles ==
    { [Bmp(Name("P", BMP), 3, 2, 24, 0, "thirds")
          EXCEPT ![fld] = Field(b[1], b[2], b[3], b[4]), !.size = n] :
          fld \in {"offset", "width", "height", "comp"},
          b \in ByteSamples \X ByteSamples \X ByteSamples \X ByteSamples,
          n \in {34, 66} }
    \cup
    { [Bmp(Name("P", BMP), 3, 2, 24, 0, "thirds")
          EXCEPT ![fld] = Field(b[1], b[2], 0, 0), !.size = n] :
          fld \in {"sig", "planes", "bpp"},
          b \in ByteSamples \X ByteSamples,
          n \in {34, 66} }

InitHeaders ==
    /\ pc = "readFileHeaders"
    /\ msgsLeft = 0
    /\ msgNext = "none"
    /\ caller = "setup"
    /\ sdOk = TRUE
    /\ first = 1
    /\ eeprom \in EepromImages
    /\ btn = NoButtons
    /\ presses = 0
    /\ stateInt = 1
    /\ nav = 0
    /\ tempFileName = Name("P", BMP)
    /\ fileToOpen = Name("P", BMP)
    /\ brightness = eeprom.brightness
    /\ ledOffset = 0
    /\ ledCount = MAX_LED_COUNT
    /\ currentRow = 0
    /\ \/ \E f \in HeaderFiles \cup TruncatedFiles \cup FieldFiles :
              bmpFile = [open |-> TRUE, file |-> f, pos |-> 0]
       \/ bmpFile = [open |-> FALSE, file |-> NoFile, pos |-> 0]
    /\ fileOk = FALSE
    /\ hdr = ZeroHdr
    /\ strip = NoStrip
    /\ log = << >>
    /\ probe = [fn |-> "readFileHeaders", args |-> << >>, out |-> << >>]

ApplyHeaders ==
    /\ pc = "readFileHeaders"
    /\ IF bmpFile.open
       THEN LET r == readFileHeaders(bmpFile.file, bmpFile.pos)
            IN /\ hdr' = r.hdr
               /\ bmpFile' = [bmpFile EXCEPT !.pos = r.pos]
       ELSE UNCHANGED << hdr, bmpFile >>
    /\ probe' = [probe EXCEPT
                     !.out = << readFileHeadersReturns(bmpFile.open) >>]
    /\ pc' = "returned"
    /\ UNCHANGED << msgsLeft, msgNext, caller, sdOk, first, eeprom, btn,
                    presses, stateInt, browser, settings, currentRow, fileOk,
                    strip, log >>

NextHeaders == ApplyHeaders

SpecHeaders == InitHeaders /\ [][NextHeaders]_vars

\* ------------------------------------------------ checkLedOffset alone
\* the state of the sketch with bitmap f loaded and a strip of count leds,
\* waiting at p
LoadedState(p, f, count) ==
    /\ pc = p
    /\ msgsLeft = 0
    /\ msgNext = "none"
    /\ caller = "config"
    /\ sdOk = TRUE
    /\ first = 1
    /\ btn = NoButtons
    /\ presses = 0
    /\ stateInt = 1
    /\ nav = 0
    /\ tempFileName = f.name
    /\ fileToOpen = f.name
    /\ brightness = 1
    /\ ledCount = count
    /\ bmpFile = [open |-> TRUE, file |-> f,
                  pos |-> readFileHeaders(f, 0).pos]
    /\ fileOk = TRUE
    /\ hdr = readFileHeaders(f, 0).hdr
    /\ strip = createStrip([strip |-> NoStrip, pos |-> 0, log |-> << >>],
                           count, 1).strip
    /\ log = << >>

\* checkLedOffset applied to an offset of any sign with a bitmap loaded
\* that is not wider than the strip
ClampOffsets == (-MaxClamp..MaxClamp) \cup {-32768, 32767}

InitClamp ==
    /\ \E w \in 1..MaxClamp, count \in 1..MaxClamp :
           /\ w <= count
           /\ LoadedState("checkLedOffset",
                          Bmp(Name("P", BMP), w, 1, 24, 0, "thirds"), count)
    /\ eeprom \in EepromImages
    /\ currentRow = 0
    /\ ledOffset \in ClampOffsets
    /\ probe = [fn |-> "checkLedOffset", args |-> << ledOffset >>,
                out |-> << >>]

ApplyClamp ==
    /\ pc = "checkLedOffset"
    /\ ledOffset' = checkLedOffset(ledOffset, ledCount, hdr)
    /\ probe' = [probe EXCEPT !.out = << ledOffset' >>]
    /\ pc' = "returned"
    /\ UNCHANGED << msgsLeft, msgNext, caller, sdOk, first, eeprom, btn,
                    presses, stateInt, browser, brightness, ledCount,
                    currentRow, bmpFile, fileOk, hdr, strip, log >>

NextClamp == ApplyClamp

SpecClamp == InitClamp /\ [][NextClamp]_vars

\* ------------------------------------------- the row operations alone
\* incrementRow, decrementRow, uiSaveRowEeprom, uiLoadRowEeprom and
\* showLightsForRow applied in any order, from any row of a bitmap of
\* height 1..MaxRows and any persisted row; probe.out lists what was
\* applied and the row it left (for a render: the row it showed)
InitRows ==
    /\ \E h \in 1..MaxRows :
           /\ LoadedState("rows", Bmp(Name("P", BMP), 1, h, 24, 0, "thirds"),
                          2)
           /\ currentRow \in 0..(h - 1)
    /\ \E r \in -1..MaxRows :
           eeprom = [row |-> r, brightness |-> 1, offset |-> 0, ledCount |-> 2]
    /\ ledOffset = 0
    /\ probe = [fn |-> "rows", args |-> << currentRow >>, out |-> << >>]

Applied(op, row) ==
    /\ pc = "rows"
    /\ Len(probe.out) < MaxOps
    /\ probe' = [probe EXCEPT !.out = Append(@, [op |-> op, row |-> row])]
    /\ UNCHANGED << pc, msgsLeft, msgNext, caller, sdOk, first, btn, presses,
                    stateInt, browser, settings, fileOk, hdr >>

ApplyIncrement(junk) ==
    LET row == incrementRow(currentRow, hdr)
    IN /\ currentRow' = row
       /\ Devices(isLightOnAtColumn(Machine, row, row, junk).m)
       /\ Applied("inc", row)
       /\ UNCHANGED eeprom

ApplyDecrement(junk) ==
    LET row == decrementRow(currentRow, hdr)
    IN /\ currentRow' = row
       /\ Devices(isLightOnAtColumn(Machine, row, row, junk).m)
       /\ Applied("dec", row)
       /\ UNCHANGED eeprom

ApplySave ==
    /\ eeprom' = writeEepromRow(eeprom, currentRow, hdr)
    /\ Applied("save", currentRow)
    /\ UNCHANGED << currentRow, devices >>

ApplyLoad ==
    /\ currentRow' = readEepromRow(eeprom, hdr)
    /\ Applied("load", currentRow')
    /\ UNCHANGED << eeprom, devices >>

ApplyRender(junk) ==
    LET m == showLightsForRow(Machine, currentRow, junk)
    IN /\ Devices(m)
       /\ Applied("render", m.log[1].a)
       /\ UNCHANGED << eeprom, currentRow >>

NextRows ==
    \/ \E junk \in JunkBytes : ApplyIncrement(junk)
    \/ \E junk \in JunkBytes : ApplyDecrement(junk)
    \/ ApplySave
    \/ ApplyLoad
    \/ \E junk \in JunkBytes : ApplyRender(junk)

SpecRows == InitRows /\ [][NextRows]_vars

\* ------------------------------------- the brightness setters alone
\* increaseBrightnessVar / decreaseBrightnessVar applied to every value
\* of the uint8_t brightness, with a bitmap loaded and a strip of 2 leds
InitBrightness ==
    /\ brightness \in 0..255
    /\ \E fn \in {"increaseBrightnessVar", "decreaseBrightnessVar"} :
           /\ pc = fn
           /\ probe = [fn |-> fn, args |-> << brightness >>, out |-> << >>]
    /\ msgsLeft = 0
    /\ msgNext = "none"
    /\ caller = "setup"
    /\ sdOk = TRUE
    /\ first = 1
    /\ eeprom = [row |-> 0, brightness |-> brightness, offset |-> 0,
                 ledCount |-> 2]
    /\ btn = NoButtons
    /\ presses = 0
    /\ stateInt = 10
    /\ nav = 0
    /\ tempFileName = Catalogue[1].name
    /\ fileToOpen = Catalogue[1].name
    /\ ledOffset = 0
    /\ ledCount = 2
    /\ currentRow = 0
    /\ bmpFile = [open |-> TRUE, file |-> Catalogue[1],
                  pos |-> readFileHeaders(Catalogue[1], 0).pos]
    /\ fileOk = FALSE
    /\ hdr = readFileHeaders(Catalogue[1], 0).hdr
    /\ strip = createStrip([strip |-> NoStrip, pos |-> 0, log |-> << >>],
                           2, brightness).strip
    /\ log = << >>

ApplyBrightness(value) ==
    /\ brightness' = value
    /\ Devices(setLedBrightness(Machine, value, ledCount))
    /\ probe' = [probe EXCEPT !.out = << value >>]
    /\ pc' = "returned"
    /\ UNCHANGED << msgsLeft, msgNext, caller, sdOk, first, eeprom, btn,
                    presses, stateInt, browser, ledOffset, ledCount,
                    currentRow, fileOk, hdr >>

ApplyIncrease ==
    /\ pc = "increaseBrightnessVar"
    /\ ApplyBrightness(increaseBrightnessVar(brightness))

ApplyDecrease ==
    /\ pc = "decreaseBrightnessVar"
    /\ ApplyBrightness(decreaseBrightnessVar(brightness))

NextBrightness == ApplyIncrease \/ ApplyDecrease

SpecBrightness == InitBrightness /\ [][NextBrightness]_vars

\* ----------------------------------------- the offset setters alone
\* increaseLedOffset and decreaseLedOffset (right and left of uiOffset)
\* applied in any order, up to MaxOps times, with a bitmap loaded that is
\* not wider than the strip (up to MaxClamp leds) and an offset that
\* starts in 0..ledCount - imageWidth; probe.out lists what was applied
\* and the offset it left
InitOffset ==
    /\ \E w \in 1..MaxClamp, count \in 1..MaxClamp :
           /\ w <= count
           /\ LoadedState("uiOffset",
                          Bmp(Name("P", BMP), w, 1, 24, 0, "thirds"), count)
           /\ ledOffset \in 0..(count - w)
    /\ eeprom = [row |-> 0, brightness |-> 1, offset |-> ledOffset,
                 ledCount |-> ledCount]
    /\ currentRow = 0
    /\ probe = [fn |-> "uiOffset", args |-> << ledOffset >>, out |-> << >>]

ApplyOffset(op, value, put) ==
    /\ pc = "uiOffset"
    /\ Len(probe.out) < MaxOps
    /\ ledOffset' = value
    /\ eeprom' = (IF put THEN [eeprom EXCEPT !.offset = value] ELSE eeprom)
    /\ Devices(configEntry(Machine, 11, value, ledCount))
    /\ probe' = [probe EXCEPT
                     !.out = Append(@, [op |-> op, offset |-> value])]
    /\ UNCHANGED << pc, msgsLeft, msgNext, caller, sdOk, first, btn, presses,
                    stateInt, browser, brightness, ledCount, currentRow,
                    fileOk, hdr >>

ApplyIncreaseOffset ==
    ApplyOffset("inc", increaseLedOffset(ledOffset, ledCount, hdr), FALSE)

ApplyDecreaseOffset ==
    LET dec == decreaseLedOffset(ledOffset, ledCount, hdr)
    IN ApplyOffset("dec", dec.offset, dec.put)

NextOffset == ApplyIncreaseOffset \/ ApplyDecreaseOffset

SpecOffset == InitOffset /\ [][NextOffset]_vars

\* ---------------------------------------------- checkFileHeaders alone
\* checkFileHeaders applied to the headers read from files with any
\* signature, number of colour planes, bits per pixel and compression
\* method; when it answers false it first shows its message
CheckFiles ==
    { [Bmp(Name("P", BMP), 3, 2, bpp, comp, "thirds")
          EXCEPT !.sig = sig, !.planes = planes] :
          sig \in {0, 19778, 65535},
          planes \in {0, 1, 2, 65535},
          bpp \in {0, 1, 8, 23, 24, 25, 32, 280, 65535},
          comp \in {0, 1, 65536, Field(0, 0, 0, 128),
                    Field(255, 255, 255, 255)} }

InitCheck ==
    /\ pc = "checkFileHeaders"
    /\ msgsLeft = 0
    /\ msgNext = "none"
    /\ caller = "setup"
    /\ sdOk = TRUE
    /\ first = 1
    /\ eeprom = [row |-> 0, brightness |-> 1, offset |-> 0, ledCount |-> 5]
    /\ btn = [NoButtons EXCEPT !.read = TRUE]
    /\ presses = 1
    /\ stateInt = 1
    /\ nav = 0
    /\ tempFileName = Name("P", BMP)
    /\ fileToOpen = Name("P", BMP)
    /\ brightness = 1
    /\ ledOffset = 0
    /\ ledCount = 5
    /\ currentRow = 0
    /\ \E f \in CheckFiles :
           /\ bmpFile = [open |-> TRUE, file |-> f,
                         pos |-> readFileHeaders(f, 0).pos]
           /\ hdr = readFileHeaders(f, 0).hdr
    /\ fileOk = FALSE
    /\ strip = NoStrip
    /\ log = << >>
    /\ probe = [fn |-> "checkFileHeaders", args |-> << >>, out |-> << >>]

ApplyCheck ==
    /\ pc = "checkFileHeaders"
    /\ probe' = [probe EXCEPT !.out = << checkFileHeaders(hdr) >>]
    /\ IF checkFileHeaders(hdr)
       THEN Goto("returned")
       ELSE Msg(1, "returned")
    /\ UNCHANGED << caller, sdOk, first, eeprom, btn, presses, stateInt,
                    browser, settings, currentRow, bmpFile, fileOk, hdr,
                    strip, log >>

NextCheck ==
    \/ ApplyCheck
    \/ \E adc \in AdcSamples, expired \in BOOLEAN : MsgPoll(adc, expired)

SpecCheck == InitCheck /\ [][NextCheck]_vars

\* ------------------------------------- leaving the configuration alone
\* setStateDepartingConfig and what follows it in setup and loop, from a
\* configuration screen with a bitmap of width 1..MaxClamp open, a count
\* of 1..MaxClamp leds and any offset in memory (whatever the EEPROM and
\* the edits on the screens left there)
InitDepart ==
    /\ \E w \in 1..MaxClamp, count \in 1..MaxClamp :
           LoadedState("setStateDepartingConfig",
                       Bmp(Name("P", BMP), w, 1, 24, 0, "thirds"), count)
    /\ ledOffset \in ClampOffsets \cup {MAX_LED_COUNT}
    /\ eeprom \in EepromImages
    /\ currentRow = 0
    /\ probe = [fn |-> "setStateDepartingConfig", args |-> << ledOffset >>,
                out |-> << >>]

ApplyDepart ==
    /\ pc = "setStateDepartingConfig"
    /\ Depart(btn)
    /\ UNCHANGED presses

NextDepart ==
    \/ ApplyDepart
    \/ VerifyFile
    \/ \E adc \in AdcSamples, expired \in BOOLEAN : MsgPoll(adc, expired)
    \/ VerifyEndConfig
    \/ \E junk \in JunkBytes : DisplayRow(junk)

SpecDepart == InitDepart /\ [][NextDepart]_vars

\* ------------------------------------------------ the file browser alone
\* displayFiles after setup has read the settings and down has been
\* pressed and released nav times, nav below the number of entries
InitBrowse ==
    /\ pc = "browse"
    /\ msgsLeft = 0
    /\ msgNext = "none"
    /\ caller = "setup"
    /\ sdOk = TRUE
    /\ first \in 1..Len(Catalogue)
    /\ eeprom \in {readEepromLedCount(e) : e \in EepromImages}
    /\ btn = NoButtons
    /\ presses = 0
    /\ stateInt = 0
    /\ nav \in 0..(Len(Catalogue) - 1)
    /\ tempFileName = displayTop(Directory(first), nav, << >>)
    /\ fileToOpen = << >>
    /\ brightness = eeprom.brightness
    /\ ledCount = eeprom.ledCount
    /\ ledOffset = readEepromLedOffset(eeprom, eeprom.ledCount, ZeroHdr)
    /\ currentRow = readEepromRow(eeprom, ZeroHdr)
    /\ bmpFile = [open |-> FALSE, file |-> NoFile, pos |-> 0]
    /\ fileOk = FALSE
    /\ hdr = ZeroHdr
    /\ strip = NoStrip
    /\ log = << >>
    /\ probe = NoProbe

NextBrowse ==
    \/ \E adc \in AdcSamples : BrowsePoll(adc)
    \/ \E adc \in AdcSamples, expired \in BOOLEAN : MsgPoll(adc, expired)

SpecBrowse == InitBrowse /\ [][NextBrowse]_vars

\* ------------------------------------- the packed-bit revision of a row
\* The first revision of the sketch keeps one row as bits packed into
\* lightsArray[LED_COUNT / 8].  A byte is kept here as the set of its bits
\* that are 1, bit 0 the lowest.
LED_COUNT == 60

calculateInitialBinaryShift(imageWidth) ==
    IF 8 - imageWidth < 0 THEN 0 ELSE 8 - imageWidth

\* pixelTrue for light n of the loop of setLightsArray: the pixels of the
\* row are read one after the other while n < imageWidth.  imageWidth - 1
\* is computed in uint32_t, so with a width of 0 every n passes the test
\* and pixelBuffer, never written, holds junk.
pixelTrueAt(f, pixelRow, n, junk) ==
    LET rowBytes == 3 * f.width + ((4 - ((3 * f.width) % 4)) % 4)
        p == f.offset + (f.height - pixelRow - 1) * rowBytes + 3 * n
        buf == [k \in 0..2 |-> IF f.width = 0 THEN junk
                               ELSE FileByte(f, p + k)]
    IN IF f.width = 0 THEN isPixelTrue(buf[0], buf[2], buf[1])
       ELSE n <= f.width - 1 /\ isPixelTrue(buf[0], buf[2], buf[1])

\* byte k of lightsArray after setLightsArray: pixelTrue of light 8k + s is
\* shifted left by 7 - s - initialBinaryShift, the initial shift being 0
\* after the first byte.  A 1 shifted by a negative count is undefined:
\* undef is the bit it sets, -1 for none.
lightsByte(f, pixelRow, k, junk, undef) ==
    LET init == IF k = 0 THEN calculateInitialBinaryShift(f.width) ELSE 0
        on == {s \in 0..7 : pixelTrueAt(f, pixelRow, 8 * k + s, junk)}
    IN {7 - s - init : s \in {t \in on : 7 - t - init >= 0}}
       \cup {undef : s \in {t \in on : 7 - t - init < 0 /\ undef >= 0}}

\* a byte is stored each time 8 lights have been packed: the LED_COUNT / 8
\* bytes of lightsArray hold the lights 0 .. 8 * (LED_COUNT / 8) - 1
setLightsArray(f, pixelRow, junk, undef) ==
    [k \in 0..((LED_COUNT \div 8) - 1) |->
        lightsByte(f, pixelRow, k, junk, undef)]

isBitTrueInByte(myByte, bitPos) == (7 - bitPos) \in myByte

\* rem is what pixelIndex % 0 yields and beyond the byte found behind the
\* end of lightsArray; `defined` tells that neither was used
isTrueForBitInByteArray(arr, pixelIndex, rem, beyond) ==
    LET byteIndex == pixelIndex \div 8
        bitInByteIndex == IF byteIndex * 8 = 0 THEN rem
                          ELSE pixelIndex % (byteIndex * 8)
        myByte == IF byteIndex \in DOMAIN arr THEN arr[byteIndex] ELSE beyond
    IN [defined |-> byteIndex * 8 # 0 /\ byteIndex \in DOMAIN arr,
        ret |-> isBitTrueInByte(myByte, bitInByteIndex)]

\* showLightsForRow of that revision on a verified bitmap of two rows and
\* a width of 0..LED_COUNT: setLightsArray, then one light after the other
InitPacked ==
    /\ pc = "setLightsArray"
    /\ PowerOn
    /\ sdOk = TRUE
    /\ first = 1
    /\ eeprom = [row |-> 0, brightness |-> 1, offset |-> 0,
                 ledCount |-> LED_COUNT]
    /\ \E w \in 0..LED_COUNT, pat \in {"thirds", "edge"}, row \in 0..1 :
           probe = [fn |-> "showLightsForRow",
                    args |-> << Bmp(Name("P", BMP), w, 2, 24, 0, pat), row >>,
                    out |-> << >>]

ApplyPack(junk, undef) ==
    /\ pc = "setLightsArray"
    /\ probe' = [probe EXCEPT
                     !.out = << setLightsArray(probe.args[1], probe.args[2],
                                               junk, undef),
                                [i |-> -1, defined |-> TRUE, ret |-> FALSE] >>]
    /\ pc' = "showLightsForRow"
    /\ UNCHANGED << msgsLeft, msgNext, caller, sdOk, first, eeprom, btn,
                    presses, stateInt, browser, settings, currentRow, bmpFile,
                    fileOk, hdr, strip, log >>

ApplyShow(rem, beyond) ==
    /\ pc = "showLightsForRow"
    /\ LET i == probe.out[2].i + 1
           r == isTrueForBitInByteArray(probe.out[1], i, rem, beyond)
       IN /\ probe' = [probe EXCEPT
                           !.out[2] = [i |-> i, defined |-> r.defined,
                                       ret |-> r.ret]]
          /\ pc' = (IF i + 1 < LED_COUNT THEN "showLightsForRow"
                    ELSE "returned")
    /\ UNCHANGED << msgsLeft, msgNext, caller, sdOk, first, eeprom, btn,
                    presses, stateInt, browser, settings, currentRow, bmpFile,
                    fileOk, hdr, strip, log >>

NextPacked ==
    \/ \E junk \in JunkBytes, undef \in {-1, 0, 7} : ApplyPack(junk, undef)
    \/ \E rem \in 0..7, beyond \in {{}, 0..7} : ApplyShow(rem, beyond)

SpecPacked == InitPacked /\ [][NextPacked]_vars

\* ================================================================ claims
\* C1: for every three byte values, isPixelTrue answers true exactly when
\* their sum, taken without wrap-around at 8 bits, is below 384 (a sum of
\* exactly 384 answers false), and the answer is the same for every order
\* of the three arguments.
C1_PixelThreshold ==
    (probe.fn = "isPixelTrue" /\ probe.out # << >>) =>
        LET b == probe.args[1]
            g == probe.args[2]
            r == probe.args[3]
            ret == probe.out[1]
        IN /\ b + g + r \in 0..765
           /\ ret = (b + g + r < 384)
           /\ (b + g + r = 384) => ~ret
           /\ \A q \in {<< b, r, g >>, << g, b, r >>, << g, r, b >>,
                         << r, b, g >>, << r, g, b >>} :
                  isPixelTrue(q[1], q[2], q[3]) = ret

\* the classifier has answered for a sum of exactly 384
C1_Witness ==
    /\ pc = "returned"
    /\ probe.args = << 128, 128, 128 >>
    /\ probe.out = << FALSE >>

\* C5: after readFileHeaders, for every image width from 1 to
\* MAX_LED_COUNT, _bytesPerRow is the smallest multiple of 4 that is at
\* least 3 * width, and the padding _numEmptyBytesPerRow is in 0..3.
C5_RowStride ==
    (probe.fn = "readFileHeaders" /\ probe.out # << >>
     /\ Small(hdr.imageWidth) /\ Val(hdr.imageWidth) \in 1..MAX_LED_COUNT) =>
        LET w == Val(hdr.imageWidth)
        IN /\ w = bmpFile.file.width
           /\ hdr.bytesPerRow % 4 = 0
           /\ hdr.bytesPerRow >= 3 * w
           /\ hdr.bytesPerRow - 4 < 3 * w
           /\ hdr.numEmptyBytesPerRow \in 0..3
           /\ hdr.bytesPerRow = 3 * w + hdr.numEmptyBytesPerRow

\* the headers of a bitmap whose rows need no padding, and of the widest
\* strip's bitmap, have been read
C5_Witness ==
    /\ pc = "returned"
    /\ probe.fn = "readFileHeaders"
    /\ hdr.imageWidth = U32(MAX_LED_COUNT)
    /\ hdr.bytesPerRow = 432
    /\ hdr.numEmptyBytesPerRow = 0

\* ---- the row display, as the log tells it
HasRender == \E k \in DOMAIN log : log[k].op = "rendered"
RenderFrom == CHOOSE k \in DOMAIN log : log[k].op = "render"
\* the events of the last render, from its call to its return
Render == SubSeq(log, RenderFrom, Len(log))
RenderRow == Render[1].a
IsSet(e) == e.op = "set"
IsShow(e) == e.op = "show"
IsPixelRead(e) == e.op \in {"seek", "read"}
Outside(i) == (i < ledOffset) \/ (i >= ledOffset + Val(hdr.imageWidth))
\* byte k of the pixel at a column of a logical row of bitmap f
PixelAt(f, column, row, k) ==
    FileByte(f, f.offset + column * 3
                + (f.height - row - 1) * Stride(f.width) + k)
PixelOn(f, column, row) ==
    PixelAt(f, column, row, 0) + PixelAt(f, column, row, 1)
        + PixelAt(f, column, row, 2) < 384

\* C2: in a row render every led index below ledOffset or at or above
\* ledOffset + imageWidth is set to off, and no seek or read of the bitmap
\* file is made for it.
C2_OutsideWindowOff ==
    HasRender =>
        \A k \in 2..Len(Render) :
            (IsSet(Render[k]) /\ Outside(Render[k].a)) =>
                /\ Render[k].b = 0
                /\ Render[k].a \notin strip.shown
                /\ Render[k - 1].op \in {"set", "render"}

\* a row has been rendered with leds before and after the image's window
C2_Witness ==
    /\ pc = "row"
    /\ HasRender
    /\ ledOffset > 0
    /\ Val(hdr.imageWidth) > 0
    /\ ledOffset + Val(hdr.imageWidth) < ledCount
    /\ \E k \in DOMAIN log : IsPixelRead(log[k])

\* C3: in a row render every led index i of the window (ledOffset <= i <
\* ledOffset + imageWidth) is set to what the classifier answers for the
\* pixel at column i - ledOffset of the current row of the bitmap.
C3_WindowShowsRow ==
    (HasRender /\ RenderRow \in 0..(bmpFile.file.height - 1)) =>
        \A k \in 2..Len(Render) :
            (IsSet(Render[k]) /\ ~Outside(Render[k].a)) =>
                Render[k].b =
                    (IF PixelOn(bmpFile.file, Render[k].a - ledOffset,
                                RenderRow)
                     THEN 1 ELSE 0)

\* C4: for a validated bitmap, a row in 0..height-1 and a column in
\* 0..width-1, the position sought before the pixel is read is
\* imageOffset + column * 3 + (height - row - 1) * _bytesPerRow.
C4_SeekPosition ==
    (HasRender /\ RenderRow \in 0..(bmpFile.file.height - 1)) =>
        \A k \in 2..Len(Render) :
            (Render[k].op = "seek") =>
                /\ Render[k + 2].op = "set"
                /\ Render[k].a =
                       U32(Val(hdr.imageOffset)
                           + (Render[k + 2].a - ledOffset) * 3
                           + (Val(hdr.imageHeight) - RenderRow - 1)
                               * hdr.bytesPerRow)

\* C6: one render stages every led index 0..ledCount-1 once, in
\* increasing order, and calls show() once, after the last index is
\* staged and not between two of them.
C6_OneShowPerRender ==
    HasRender =>
        LET sets == SelectSeq(Render, IsSet)
            n == Len(Render)
        IN /\ Len(sets) = ledCount
           /\ \A k \in 1..Len(sets) : sets[k].a = k - 1
           /\ Len(SelectSeq(Render, IsShow)) = 1
           /\ Render[n - 1].op = "show"
           /\ Render[n].op = "rendered"

\* a row of more than one led has been rendered
C6_Witness ==
    /\ pc = "row"
    /\ HasRender
    /\ ledCount = MAX_LED_COUNT
    /\ strip.shown # {}

\* C7: when the header read from the opened file has bitsPerPixel # 24 or
\* compression # 0, verifyFile answers false, fileOk stays false and no
\* seek or read of pixel data is ever made, whatever is pressed.
C7_UnsupportedNeverRead ==
    (hdr.loaded /\ (hdr.bitsPerPixel # 24 \/ hdr.compression # U32(0))) =>
        /\ verifyFile(bmpFile.open, hdr, ledCount) # "file OK"
        /\ ~fileOk
        /\ pc \notin {"displayRow", "row"}
        /\ \A k \in DOMAIN log : ~IsPixelRead(log[k])

\* a compressed bitmap was opened and select on a configuration screen
\* has led back to the intro
C7_Witness ==
    /\ pc = "intro"
    /\ caller = "config"
    /\ hdr.loaded
    /\ hdr.bitsPerPixel = 24
    /\ hdr.compression # U32(0)
    /\ ~fileOk

\* C8: while imageWidth > ledCount the sketch is not in row-display mode:
\* loop() with uiDisplayRow and showLightsForRow is not reached until
\* ledCount is at least imageWidth.
C8_NoRowModeWhileTooWide ==
    (hdr.loaded /\ Lt32(U32(ledCount), hdr.imageWidth)) =>
        /\ pc \notin {"displayRow", "row"}
        /\ ~HasRender
        /\ (pc \in {"intro", "config", "resetEnd"} => stateInt # 1)

\* a bitmap wider than the strip was opened and select on a configuration
\* screen has led back to the intro
C8_Witness ==
    /\ pc = "intro"
    /\ caller = "config"
    /\ hdr.loaded
    /\ checkFileHeaders(hdr)
    /\ Lt32(U32(ledCount), hdr.imageWidth)

\* C9: at every seek or read of pixel data the loaded header has
\* bitsPerPixel = 24, compression = 0, width >= 1 and height >= 1.
C9_ReadsOnlyValidated ==
    (\E k \in DOMAIN log : IsPixelRead(log[k])) =>
        /\ hdr.bitsPerPixel = 24
        /\ hdr.compression = U32(0)
        /\ Lt32(U32(0), hdr.imageWidth)
        /\ Lt32(U32(0), hdr.imageHeight)

\* C10: whenever a bitmap is loaded (and fits the strip),
\* ledOffset + imageWidth <= ledCount.
C10_OffsetBound ==
    (hdr.loaded /\ Le32(hdr.imageWidth, U32(ledCount))) =>
        ledOffset + Val(hdr.imageWidth) <= ledCount

\* C11: with a bitmap loaded whose width is at most ledCount,
\* checkLedOffset maps every int ledOffset into 0..ledCount - width: a
\* value above ledCount - width becomes ledCount - width, a value below 0
\* becomes 0 and a value in the range stays.
C11_ClampOffset ==
    (probe.fn = "checkLedOffset" /\ probe.out # << >>) =>
        LET in == probe.args[1]
            top == ledCount - Val(hdr.imageWidth)
        IN /\ ledOffset \in 0..top
           /\ ledOffset = (IF in > top THEN top ELSE IF in < 0 THEN 0 ELSE in)

C13_RenderedRowInImage ==
    HasRender =>
        /\ fileOk
        /\ RenderRow = currentRow
        /\ 0 <= currentRow
        /\ currentRow <= Val(hdr.imageHeight) - 1

\* C15: loading the persisted row with a bitmap loaded (on leaving the
\* intro and on the left button) sets currentRow to the persisted row when
\* that is in 0..imageHeight-1, and to 0 when it is not.  currentRow and
\* the persisted row stay as they are on the configuration screens.
C15_PersistedRowOrZero ==
    (pc = "config" /\ hdr.loaded /\ Lt32(U32(0), hdr.imageHeight)) =>
        currentRow = (IF eeprom.row \in 0..(Val(hdr.imageHeight) - 1)
                      THEN eeprom.row ELSE 0)

\* ---- the row operations, as probe.out tells them
Ops == probe.out
\* the row before operation k
RowBefore(k) == IF k = 1 THEN probe.args[1] ELSE Ops[k - 1].row
IsStep(k) == Ops[k].op \in {"inc", "dec"}

\* C14: decrementRow from row 0 gives imageHeight - 1, incrementRow from
\* row imageHeight - 1 gives 0, otherwise the row changes by -1 / +1; so
\* incrementRow then decrementRow, and the reverse, restore currentRow for
\* every row of a bitmap of height >= 1.
C14_RowStepWraps ==
    probe.fn = "rows" =>
        LET last == Val(hdr.imageHeight) - 1
        IN \A k \in 1..Len(Ops) :
            /\ Ops[k].op = "inc" =>
                   Ops[k].row = (IF RowBefore(k) = last THEN 0
                                 ELSE RowBefore(k) + 1)
            /\ Ops[k].op = "dec" =>
                   Ops[k].row = (IF RowBefore(k) = 0 THEN last
                                 ELSE RowBefore(k) - 1)
            /\ (k > 1 /\ IsStep(k) /\ IsStep(k - 1)
                    /\ Ops[k].op # Ops[k - 1].op) =>
                   Ops[k].row = RowBefore(k - 1)

\* from the last row of the tallest bitmap incrementRow has wrapped to 0
\* and decrementRow has wrapped back
C14_Witness ==
    /\ probe.fn = "rows"
    /\ Len(Ops) = 2
    /\ probe.args = << MaxRows - 1 >>
    /\ Ops[1] = [op |-> "inc", row |-> 0]
    /\ Ops[2] = [op |-> "dec", row |-> MaxRows - 1]
    /\ currentRow = MaxRows - 1

\* C16: after the right button saves row r, then any number of up/down
\* steps, the left button sets currentRow back to r and the next render
\* shows row r.
C16_SaveLoadRoundTrip ==
    probe.fn = "rows" =>
        \A j, k \in 1..Len(Ops) :
            (/\ j < k
             /\ Ops[j].op = "save"
             /\ Ops[k].op = "load"
             /\ \A i \in (j + 1)..(k - 1) : IsStep(i)) =>
                /\ Ops[k].row = Ops[j].row
                /\ (k = Len(Ops)) => currentRow = Ops[j].row
                /\ (k < Len(Ops) /\ Ops[k + 1].op = "render") =>
                       Ops[k + 1].row = Ops[j].row

\* a row was saved, left by a step, loaded again and rendered
C16_Witness ==
    /\ probe.fn = "rows"
    /\ Len(Ops) = 4
    /\ Ops[1].op = "save"
    /\ Ops[1].row = MaxRows - 1
    /\ IsStep(2)
    /\ Ops[2].row # Ops[1].row
    /\ Ops[3] = [op |-> "load", row |-> MaxRows - 1]
    /\ Ops[4] = [op |-> "render", row |-> MaxRows - 1]
    /\ HasRender
    /\ RenderRow = MaxRows - 1

\* C17: after a file-open failure or an unsupported-format failure has
\* been reported, control returns to file selection: the file browser is
\* shown again.
C17_FailureReturnsToBrowser ==
    [][(pc = "verifyEnd"
        /\ verifyFile(bmpFile.open, hdr, ledCount)
               \in {"unable to open file", "Not compatable file"}) =>
           pc' = "browse"]_vars

\* ---- the image is wider than the strip
TooWide == hdr.loaded /\ Lt32(U32(ledCount), hdr.imageWidth)

\* C18 as stated: after an image-too-wide failure the configuration screen
\* entered from the intro is the LED-count screen (stateInt 12).
C18_TooWideGoesToLedCount ==
    [][(pc = "intro" /\ pc' = "config" /\ TooWide) => stateInt' = 12]_vars

\* C18 as the sketch has it: after an image-too-wide failure control
\* returns to the intro with the file still open and its headers kept; the
\* configuration screen entered from the intro is the brightness screen
\* (stateInt 10), and up / down lead from a screen to its neighbour, so
\* the LED-count screen (stateInt 12) is two screens away.
C18_TooWideReturnsToIntro ==
    [][/\ (pc = "verifyEnd"
           /\ verifyFile(bmpFile.open, hdr, ledCount)
                  = "Image width greater then LED count") =>
              /\ pc' = "intro"
              /\ stateInt' = 0
              /\ ~fileOk'
              /\ bmpFile' = bmpFile
              /\ hdr' = hdr
       /\ (pc = "intro" /\ pc' = "config") => stateInt' = 10
       /\ (pc = "config" /\ pc' = "config" /\ stateInt' # stateInt) =>
              \/ stateInt' = 10 + ((stateInt - 10 + 1) % 4)
              \/ stateInt' = 10 + ((stateInt - 10 + 3) % 4)
      ]_vars

\* after the failure the LED-count screen was reached and the count raised
\* to the width of the image
C18_Witness ==
    /\ pc = "config"
    /\ stateInt = 12
    /\ hdr.loaded
    /\ ~fileOk
    /\ U32(ledCount) = hdr.imageWidth
    /\ Lt32(U32(eeprom.ledCount), hdr.imageWidth)

\* C19: when the initialisation of the SD card fails at boot the sketch
\* halts: no file navigation, no file opened, no strip made or written,
\* and nothing changes afterwards.
C19_CardFailureHalts ==
    [][/\ pc # "halt"
       /\ ~sdOk =>
              /\ pc' = "halt"
              /\ tempFileName' = << >>
              /\ fileToOpen' = << >>
              /\ ~bmpFile'.open
              /\ strip' = NoStrip
              /\ log' = << >>
      ]_vars

\* the card failed and the sketch is in the endless loop of initializeCard
C19_Witness ==
    /\ pc = "halt"
    /\ ~sdOk
    /\ strip = NoStrip

\* C20: readFileHeaders returns false and verifyFile reports "Unable to
\* read file headers" when the header bytes cannot be read: when no file
\* is open (where verifyFile may report that instead) and when the file
\* ends before the end of the header fields (before byte 34).
C20_HeaderReadError ==
    (probe.fn = "readFileHeaders" /\ probe.out # << >>) =>
        /\ ~bmpFile.open =>
               /\ probe.out = << FALSE >>
               /\ verifyFile(bmpFile.open, hdr, ledCount)
                      \in {"unable to open file",
                           "Unable to read file headers"}
        /\ (bmpFile.open /\ bmpFile.file.size < 34) =>
               /\ probe.out = << FALSE >>
               /\ verifyFile(bmpFile.open, hdr, ledCount)
                      = "Unable to read file headers"

\* ---- the bytes of the header fields of the open file
HeaderByte(p) == FileByte(bmpFile.file, p)
\* the 16-bit and the 32-bit number of the bytes at p, lowest byte first
Word16At(p) == HeaderByte(p) + 256 * HeaderByte(p + 1)
Word32At(p) == << Word16At(p + 2), Word16At(p) >>

\* C21: for every file of at least 34 bytes readFileHeaders sets
\* imageOffset to the little-endian 32-bit number at byte 10, imageWidth
\* to the one at 18, imageHeight to the one at 22, colourPlanes to the
\* 16-bit number at 26, bitsPerPixel to the one at 28 and compression to
\* the 32-bit number at 30, each b0 | b1<<8 | b2<<16 | b3<<24 with the
\* lowest byte first, for all byte values.
C21_LittleEndianFields ==
    (probe.fn = "readFileHeaders" /\ probe.out # << >> /\ bmpFile.open
     /\ bmpFile.file.size >= 34) =>
        /\ \A p \in (10..13) \cup (18..33) : HeaderByte(p) \in 0..255
        /\ hdr.imageOffset = Word32At(10)
        /\ hdr.imageWidth = Word32At(18)
        /\ hdr.imageHeight = Word32At(22)
        /\ hdr.colourPlanes = Word16At(26)
        /\ hdr.bitsPerPixel = Word16At(28)
        /\ hdr.compression = Word32At(30)

\* the headers of a file of 34 bytes were read whose width has four
\* different bytes, the highest with its top bit set
C21_Witness ==
    /\ pc = "returned"
    /\ probe.fn = "readFileHeaders"
    /\ bmpFile.file.size = 34
    /\ << HeaderByte(18), HeaderByte(19), HeaderByte(20), HeaderByte(21) >>
           = << 1, 127, 128, 255 >>
    /\ hdr.imageWidth = << 65408, 32513 >>
    /\ hdr.imageHeight = U32(2)

\* C22: whenever ledCount changes at runtime (left / right on the
\* LED-count screen, reset to default) the strip is deleted and made again
\* with the new count before the next led output, so at every call of
\* showLightsForRow or showLedsInBounds the strip has ledCount pixels.
C22_StripHasLedCount ==
    /\ strip.made => strip.numLEDs = ledCount
    /\ HasRender => strip.numLEDs = ledCount

\* ---- select has been pressed on a configuration screen
DepartedConfig ==
    /\ caller = "config"
    /\ \/ pc \in {"verifyFile", "verifyEnd", "intro", "displayRow", "row"}
       \/ pc = "msg" /\ msgNext \in {"verifyEnd", "displayRow"}
RowMode ==
    pc \in {"displayRow", "row"} \/ (pc = "msg" /\ msgNext = "displayRow")
\* what readAllEepromData makes of the persisted settings at power-on
\* (no bitmap is loaded then, imageWidth is 0)
RestoredLedCount == readEepromLedCount(eeprom).ledCount
RestoredLedOffset == readEepromLedOffset(eeprom, RestoredLedCount, ZeroHdr)

Resetting == pc = "resetEnd" \/ (pc = "msg" /\ msgNext = "resetEnd")

\* C24: the right button on the reset screen sets brightness, ledCount
\* and ledOffset to 1, MAX_LED_COUNT and 0 and leaves the row as it is:
\* neither currentRow nor the persisted row is changed.
C24_ResetKeepsRow ==
    [][/\ (pc = "config" /\ stateInt = 13 /\ Resetting') =>
              /\ brightness' = 1
              /\ ledCount' = MAX_LED_COUNT
              /\ ledOffset' = 0
              /\ currentRow' = currentRow
              /\ eeprom'.row = eeprom.row
       /\ Resetting =>
              /\ << brightness', ledCount', ledOffset' >>
                     = << 1, MAX_LED_COUNT, 0 >>
              /\ currentRow' = currentRow
              /\ eeprom'.row = eeprom.row
      ]_vars

\* reset to default has replaced a count of 5 and an offset of 1 while
\* the row loaded from the EEPROM is row 1
C24_Witness ==
    /\ pc = "resetEnd"
    /\ << brightness, ledCount, ledOffset >> = << 1, MAX_LED_COUNT, 0 >>
    /\ eeprom.ledCount = 5
    /\ eeprom.offset = 1
    /\ currentRow = 1
    /\ eeprom.row = 1

\* ---- the configuration screens
\* one turn of the loop of the configuration screen shown
ConfigPoll(adc) ==
    \/ BrightnessPoll(adc)
    \/ OffsetPoll(adc)
    \/ LedCountPoll(adc)
    \/ ResetPoll(adc)
DownOf(screen) == IF screen = 13 THEN 10 ELSE screen + 1
UpOf(screen) == IF screen = 10 THEN 13 ELSE screen - 1

\* C25: on the configuration screens a down press leads 10 -> 11 -> 12 ->
\* 13 -> 10 and an up press leads the other way round, so down then up (or
\* up then down) returns to the same screen; up and down change none of
\* brightness, ledOffset, ledCount, currentRow.
C25_ScreenCycle ==
    [][pc = "config" =>
           \A adc \in AdcSamples :
               ConfigPoll(adc) =>
                   LET b == readButtons(btn, adc)
                   IN /\ stateInt \in 10..13
                      /\ (b.down \/ b.up) =>
                             /\ pc' = "config"
                             /\ stateInt' = (IF b.down THEN DownOf(stateInt)
                                             ELSE UpOf(stateInt))
                             /\ UpOf(DownOf(stateInt)) = stateInt
                             /\ DownOf(UpOf(stateInt)) = stateInt
                             /\ UNCHANGED << brightness, ledOffset, ledCount,
                                             currentRow, eeprom >>
                      /\ (pc' = "config" /\ stateInt' # stateInt) =>
                             (b.down \/ b.up)
      ]_vars

\* an up press on the brightness screen, the first screen, has led to the
\* reset screen
C25_Witness ==
    /\ pc = "config"
    /\ stateInt = 13
    /\ presses = 3
    /\ btn.read
    /\ ~fileOk

\* ---- what verifyFile is to test: the file is open, has 24 bits per
\* pixel, is not compressed and is not wider than the strip
Verifies ==
    /\ bmpFile.open
    /\ hdr.bitsPerPixel = 24
    /\ hdr.compression = U32(0)
    /\ Le32(hdr.imageWidth, U32(ledCount))

C27_BrightnessStep ==
    (probe.fn \in {"increaseBrightnessVar", "decreaseBrightnessVar"}
     /\ probe.out # << >>) =>
        LET b == probe.args[1]
        IN /\ probe.out = << brightness >>
           /\ strip.brightness = brightness
           /\ probe.fn = "decreaseBrightnessVar" =>
                  brightness = (IF b = 0 THEN 255 ELSE b - BRIGHTNESS_INCREMENT)
           /\ probe.fn = "increaseBrightnessVar" =>
                  brightness = (IF b = 255 THEN 0 ELSE b + BRIGHTNESS_INCREMENT)

\* ---- the offset before operation k of probe.out
OffsetBefore(k) == IF k = 1 THEN probe.args[1] ELSE Ops[k - 1].offset

\* C28: with a bitmap loaded that is not wider than the strip and
\* ledOffset starting in 0..ledCount - width, every sequence of
\* increaseLedOffset / decreaseLedOffset keeps ledOffset in that range:
\* increasing from ledCount - width gives 0, decreasing from 0 gives
\* ledCount - width, otherwise the offset changes by exactly 1.
C28_OffsetStepWraps ==
    probe.fn = "uiOffset" =>
        LET top == ledCount - Val(hdr.imageWidth)
        IN /\ ledOffset \in 0..top
           /\ ledOffset = OffsetBefore(Len(Ops) + 1)
           /\ \A k \in 1..Len(Ops) :
                  /\ Ops[k].offset \in 0..top
                  /\ Ops[k].op = "inc" =>
                         Ops[k].offset = (IF OffsetBefore(k) = top THEN 0
                                          ELSE OffsetBefore(k) + 1)
                  /\ Ops[k].op = "dec" =>
                         Ops[k].offset = (IF OffsetBefore(k) = 0 THEN top
                                          ELSE OffsetBefore(k) - 1)

\* on the longest strip with the narrowest bitmap the offset has wrapped
\* from the top to 0 and back
C28_Witness ==
    /\ probe.fn = "uiOffset"
    /\ ledCount = MaxClamp
    /\ hdr.imageWidth = U32(1)
    /\ probe.args = << MaxClamp - 1 >>
    /\ Len(Ops) = 2
    /\ Ops[1] = [op |-> "inc", offset |-> 0]
    /\ Ops[2] = [op |-> "dec", offset |-> MaxClamp - 1]
    /\ ledOffset = MaxClamp - 1
    /\ eeprom.offset = MaxClamp - 1

\* ---- the pressed flags that are set
Flags(b) == {k \in {"up", "down", "left", "right", "select"} : b[k]}
\* a step in which an isXPressed call answers true: it clears its flag
\* and sets _hasInputBeenRead
Reported ==
    /\ btn'.read
    /\ Flags(btn') # Flags(btn)
    /\ Flags(btn') \subseteq Flags(btn)

C30_ChecksDepthAndCompression ==
    (probe.fn = "checkFileHeaders" /\ probe.out # << >>) =>
        /\ hdr.headerField = bmpFile.file.sig
        /\ hdr.colourPlanes = bmpFile.file.planes
        /\ probe.out =
               << (bmpFile.file.bpp = 24 /\ bmpFile.file.comp = 0) >>

\* a 24-bit uncompressed file with a wrong signature and two colour
\* planes has been accepted
C30_Witness ==
    /\ pc = "returned"
    /\ probe.fn = "checkFileHeaders"
    /\ probe.out = << TRUE >>
    /\ hdr.headerField = 0
    /\ hdr.colourPlanes = 2
    /\ hdr.bitsPerPixel = 24
    /\ hdr.compression = U32(0)

\* C31: in every row-display state (stateInt = 1 with fileOk true)
\* 0 <= ledOffset and ledOffset + imageWidth <= ledCount, for every
\* offset and count the EEPROM and the configuration screens left, so
\* every column of the bitmap is shown on a led index in 0..ledCount-1.
C31_RowModeOffsetInStrip ==
    (pc \in {"displayRow", "row"} /\ stateInt = 1 /\ fileOk) =>
        /\ 0 <= ledOffset
        /\ ledOffset + Val(hdr.imageWidth) <= ledCount
        /\ eeprom.offset = ledOffset
        /\ HasRender =>
               \A k \in 2..Len(Render) :
                   (Render[k].op = "read") =>
                       /\ Render[k + 1].op = "set"
                       /\ Render[k + 1].a \in 0..(ledCount - 1)
                       /\ Render[k + 1].a - ledOffset
                              \in 0..(Val(hdr.imageWidth) - 1)

\* a negative offset in memory was clamped on leaving the configuration
\* and the row is shown
C31_Witness ==
    /\ pc = "row"
    /\ probe.fn = "setStateDepartingConfig"
    /\ probe.args[1] < 0
    /\ fileOk
    /\ HasRender
    /\ Val(hdr.imageWidth) < ledCount
    /\ \E k \in DOMAIN log : log[k].op = "read"

\* C32: with a 16-bit int the row stride kept in _bytesPerRow and the
\* pixel offset kept in pixelRowFileOffset never wrap: for an accepted
\* bitmap of any height, also one whose pixel data go beyond byte 32767
\* of the file, the stride is the padded width of a row and every
\* position sought is imageOffset + column * 3 + (height - row - 1) *
\* stride, which lies inside the file.
C32_OffsetNeverWraps ==
    (HasRender /\ fileOk /\ RenderRow \in 0..(bmpFile.file.height - 1)) =>
        LET f == bmpFile.file
            stride == 4 * ((3 * f.width + 3) \div 4)
        IN /\ hdr.bytesPerRow = stride
           /\ \A k \in 2..Len(Render) :
                  (Render[k].op = "seek") =>
                      /\ Render[k].a[1] = 0
                      /\ Render[k].a[2] + NUM_BYTES_PER_PIXEL <= f.size
                      /\ \E column \in 0..(f.width - 1) :
                             Render[k].a[2] =
                                 f.offset + column * NUM_BYTES_PER_PIXEL
                                 + (f.height - RenderRow - 1) * stride

\* C33: an edit on a configuration screen (left or right on the
\* brightness, offset and led-count screens, the reset to default) changes
\* the value in memory only: the persisted ledCount, brightness and
\* ledOffset stay as they are until select leaves the configuration.
C33_EditsStayInMemory ==
    [][((pc = "config" \/ Resetting) /\ (pc' = "config" \/ Resetting')) =>
           /\ eeprom'.ledCount = eeprom.ledCount
           /\ eeprom'.brightness = eeprom.brightness
           /\ eeprom'.offset = eeprom.offset]_vars

\* C34: the file selection returns only a name that ends in ".BMP", and
\* that name is the entry shown after "->" on the first lcd row when right
\* is pressed, for every sequence of up and down presses, also one that
\* goes past the last entry of the directory.
C34_SelectsShownBmp ==
    (fileToOpen # << >>) =>
        /\ isFileNamevalid(fileToOpen)
        /\ lcdTop(Directory(first), nav) = << "-", ">" >> \o fileToOpen

\* the samples readButtons takes for "no button down"
ReleaseSamples == {adc \in AdcSamples : adc > 1000}
\* the loops that call readButtons
Polling == pc \in {"browse", "msg", "intro", "config", "row"}

\* C35: a press of a button the current screen does not ask about is
\* dropped when the button is released: whenever a loop reads a sample
\* above 1000, all five pressed flags are false after readButtons, so no
\* later screen or message sees the press.
C35_ReleaseDiscards ==
    Polling => \A adc \in ReleaseSamples : Flags(readButtons(btn, adc)) = {}

\* C36: in the packed-bit revision packing and unpacking round-trip:
\* after setLightsArray(row), for every led index i below LED_COUNT,
\* isTrueForBitInByteArray(i) is defined (no modulo by zero, no index
\* outside lightsArray) and equals (i < imageWidth and the classifier
\* answer for pixel i of that row).
C36_PackedRoundTrip ==
    (probe.fn = "showLightsForRow" /\ pc # "setLightsArray"
        /\ probe.out[2].i >= 0) =>
        LET f == probe.args[1]
            last == probe.out[2]
        IN /\ last.defined
           /\ last.ret = (last.i < f.width
                             /\ PixelOn(f, last.i, probe.args[2]))

====
